---- MODULE Spec2Model ----
(***************************************************************************)
(* A model of the OTA update daemon (esir-nus/ota-ai-test): the backup     *)
(* store (daemon/backup/system_backup.py), the retrying network client     *)
(* (daemon/network/ota_client.py) and the install / rollback sequencing of *)
(* the orchestrator (daemon/main.py).                                      *)
(*                                                                         *)
(* Strings that the code formats and parses (backup file names, time       *)
(* stamps, version labels) are sequences of tokens; "_" and "." are        *)
(* tokens of their own, so that str.split works on them as it does on      *)
(* characters.                                                             *)
(***************************************************************************)
EXTENDS Integers, Sequences, FiniteSets, Bags, TLC

\* ------------------------------------------------------------------ bounds

\* the wall clock runs over 0..MaxClock (seconds)
MaxClock == 2
\* the configured retention count ranges over 0..MaxRetention
MaxRetention == 2
\* number of create_backup calls of one behaviour of the backup store
MaxCreates == 2
\* the longest "files" list of a manifest
MaxFiles == 2
\* number of executions of one task in a behaviour of the scheduler
MaxExecutions == 2
\* the threads of scheduler-fired tasks in flight at once
MaxThreads == 2
\* the commands the user and the clients of the control socket give, and the
\* start() and stop() calls the owner of a scheduler makes
MaxEvents == 2

\* ------------------------------------------------------------ token strings

\* the days and the seconds of a day that the clock can show, as
\* strftime("%Y%m%d") and strftime("%H%M%S") print them
DateToks == <<"20230515", "20230516", "20230517">>
TimeToks == <<"103000", "103001">>

Clocks == 0..MaxClock

\* version labels "1.0.0", "1.1.0", "1.2.0"
V100 == <<"1", ".", "0", ".", "0">>
V110 == <<"1", ".", "1", ".", "0">>
V120 == <<"1", ".", "2", ".", "0">>
Versions == {V100, V110, V120}

\* device ids are XXXX-XXXX (no underscore)
DeviceId == <<"A1B2-C3D4">>
OtherDeviceId == <<"FFFF-0000">>

\* str.split(sep): the maximal sep-free pieces, in order
RECURSIVE split(_, _)
split(s, sep) ==
    IF \A k \in 1..Len(s) : s[k] # sep
    THEN <<s>>
    ELSE LET k == CHOOSE k \in 1..Len(s) :
                      s[k] = sep /\ \A j \in 1..(k - 1) : s[j] # sep
         IN  <<SubSeq(s, 1, k - 1)>> \o split(SubSeq(s, k + 1, Len(s)), sep)

\* datetime.strftime("%Y%m%d_%H%M%S")
strftime(t) ==
    <<DateToks[(t \div Len(TimeToks)) + 1], "_", TimeToks[(t % Len(TimeToks)) + 1]>>

\* datetime.strptime(s, "%Y%m%d_%H%M%S"): the instant, or "ValueError"
strptime(s) ==
    IF /\ Len(s) = 3
       /\ \E d \in 1..Len(DateToks) : s[1] = DateToks[d]
       /\ s[2] = "_"
       /\ \E c \in 1..Len(TimeToks) : s[3] = TimeToks[c]
    THEN LET d == CHOOSE d \in 1..Len(DateToks) : s[1] = DateToks[d]
             c == CHOOSE c \in 1..Len(TimeToks) : s[3] = TimeToks[c]
         IN  [ok |-> TRUE, t |-> (d - 1) * Len(TimeToks) + (c - 1)]
    ELSE [ok |-> FALSE, t |-> 0]

BackupPrefix == <<"robot-ai", "_", "backup", "_">>
BackupSuffix == <<".", "tar", ".", "gz">>

\* f"robot-ai_backup_{version}_{self.device_id}_{timestamp}.tar.gz"
backup_filename(ver, dev, t) ==
    BackupPrefix \o ver \o <<"_">> \o dev \o <<"_">> \o strftime(t) \o BackupSuffix

\* glob(f"robot-ai_backup_*_{self.device_id}_*.tar.gz")
glob_match(name, dev) ==
    LET n   == Len(name)
        mid == <<"_">> \o dev \o <<"_">>
    IN  /\ n >= Len(BackupPrefix) + Len(mid) + Len(BackupSuffix)
        /\ SubSeq(name, 1, Len(BackupPrefix)) = BackupPrefix
        /\ SubSeq(name, n - Len(BackupSuffix) + 1, n) = BackupSuffix
        /\ \E k \in (Len(BackupPrefix) + 1)..(n - Len(BackupSuffix) - Len(mid) + 1) :
               SubSeq(name, k, k + Len(mid) - 1) = mid

\* -------------------------------------------------------------- backup store

\* what tarfile.open(path, "w:gz") / tar.add leave behind
WriteOutcomes == {"complete", "corrupt", "empty", "raise_partial", "raise_nofile"}
\* what staging the configured locations does
StageOutcomes == {"ok", "rsync_nonzero", "copy_raises"}

\* what the file system can do to one create_backup call: a failed staging
\* copy ends the call before the archive is opened
BackupEnvs ==
    {[stage |-> st, write |-> "complete"] : st \in StageOutcomes}
        \cup {[stage |-> "ok", write |-> w] : w \in WriteOutcomes}

\* the installed files under /opt/robot-ai that an update can replace, and
\* none of them present
Destinations == {"/opt/robot-ai/app.bin", "/opt/robot-ai/lib.bin"}
NoFile == [exists |-> FALSE, readable |-> FALSE, bytes |-> <<>>]
NothingStaged == [d \in Destinations |-> NoFile]

\* rsync --exclude with BackupManager.exclude_patterns: of the paths under
\* /opt/robot-ai, the log file is the one a pattern ("*.log") matches
LogFile == "/opt/robot-ai/daemon.log"
excluded(d) == d = LogFile

\* what the staging directory holds when it is archived: /etc/ota_config.json
\* (copied with shutil.copy2) and /opt/robot-ai (copied with rsync, whose
\* failure is logged only and leaves the staged directory empty)
Staged(config, files, stage) ==
    [config |-> config,
     files  |-> [d \in DOMAIN files |->
                    IF stage = "rsync_nonzero" \/ excluded(d) THEN NoFile
                    ELSE files[d]]]

\* the archive file a write outcome leaves on disk (none for raise_nofile);
\* snap is the staging directory
ArchiveFile(name, now, w, snap) ==
    [name     |-> name,
     mtime    |-> now,
     size     |-> IF w = "empty" THEN 0 ELSE 1,
     readable |-> w = "complete",
     members  |-> IF w = "complete" THEN 1 ELSE 0,
     snap     |-> snap]

\* opening a path for writing replaces the file of that name
WriteFile(dir, f) == {g \in dir : g.name # f.name} \cup {f}

\* BackupManager._verify_backup
_verify_backup(dir, name) ==
    IF ~\E f \in dir : f.name = name
    THEN FALSE
    ELSE LET f == CHOOSE f \in dir : f.name = name
         IN  IF f.size = 0 THEN FALSE
             ELSE IF ~f.readable THEN FALSE
             ELSE IF f.members = 0 THEN FALSE
             ELSE TRUE

\* the files the glob of this device finds
BackupFiles(dir, dev) == {f \in dir : glob_match(f.name, dev)}

\* sorted(glob, key=st_mtime, reverse=True): every order sorted() can return
\* (files of equal mtime keep the order the directory listing gave them)
SortedBackups(dir, dev) ==
    LET fs == BackupFiles(dir, dev)
        n  == Cardinality(fs)
    IN  {s \in [1..n -> fs] :
            /\ \A i, j \in 1..n : i # j => s[i] # s[j]
            /\ \A i, j \in 1..n : i < j => s[i].mtime >= s[j].mtime}

\* a pruning that sorts oldest first: it keeps the `retention` oldest archives
cleanup_keep_oldest(dir, order, retention) ==
    dir \ {order[k] : k \in 1..(Len(order) - retention)}

\* BackupManager._cleanup_old_backups, on the listing `order`
_cleanup_old_backups(dir, order, retention) ==
    dir \ {order[k] : k \in (retention + 1)..Len(order)}

\* the result of create_backup when an exception reaches its handler, or the
\* verification fails: (False, message); `dir` is the backup directory it leaves
BackupFailed(name, msg, dir, dirAtPrune) ==
    [ok |-> FALSE, name |-> name, msg |-> msg, dir |-> dir, pruned |-> FALSE,
     atPrune |-> dirAtPrune]

\* BackupManager.create_backup(version) at instant `now`: the results it can
\* return (one per order sorted() can give the listing that is pruned), each
\* with the backup directory it leaves. env.stage and env.write are what the
\* staging copies and the archive write do; config and files are the
\* configuration file and the installed files at that instant.
create_backup(dir, ver, dev, now, retention, env, config, files) ==
    LET name == backup_filename(ver, dev, now)
        dir1 == WriteFile(dir, ArchiveFile(name, now, env.write,
                                           Staged(config, files, env.stage)))
    IN  IF env.stage = "copy_raises"
        THEN {BackupFailed(name, "Error creating backup", dir, dir)}
        ELSE IF env.write = "raise_nofile"
        THEN {BackupFailed(name, "Error creating backup", dir, dir)}
        ELSE IF env.write = "raise_partial"
        THEN {BackupFailed(name, "Error creating backup", dir1, dir1)}
        ELSE IF _verify_backup(dir1, name)
        THEN {[ok |-> TRUE, name |-> name, msg |-> "path", pruned |-> TRUE,
               atPrune |-> dir1,
               dir |-> _cleanup_old_backups(dir1, order, retention)] :
                  order \in SortedBackups(dir1, dev)}
        ELSE {BackupFailed(name, "Backup verification failed", dir1, dir1)}

\* the (path, version, timestamp) tuples get_available_backups builds from a
\* listing: a name that does not parse is logged and left out
RECURSIVE ParseListing(_)
ParseListing(order) ==
    IF order = <<>> THEN <<>>
    ELSE LET f     == Head(order)
             parts == split(f.name, "_")
             rest  == ParseListing(Tail(order))
         IN  IF Len(parts) >= 4
             THEN LET ver           == parts[3]
                      timestamp_str == split(parts[Len(parts)], ".")[1]
                      ts            == strptime(timestamp_str)
                  IN  IF ts.ok
                      THEN <<[path |-> f.name, version |-> ver, timestamp |-> ts.t]>>
                              \o rest
                      ELSE rest
             ELSE rest

\* BackupManager.get_available_backups: the lists it can return
get_available_backups(dir, dev) ==
    {ParseListing(order) : order \in SortedBackups(dir, dev)}

\* no path (Python's None)
NoPath == <<>>

\* BackupManager.get_latest_backup: the paths it can return
get_latest_backup(dir, dev) ==
    IF BackupFiles(dir, dev) = {}
    THEN {NoPath}
    ELSE {order[1].name : order \in SortedBackups(dir, dev)}

\* what the file operations of restore_backup can do: the rsync exits with a
\* non-zero status, which is logged only; the unlink or rmtree that empties
\* /opt/robot-ai raises; the shutil.copy2 of /etc/ota_config.json raises
RestoreOutcomes == {"ok", "rsync_nonzero", "clear_raises", "copy_raises"}

\* what can be at the path /etc/ota_config.json besides the file that holds a
\* version: nothing, or a directory with that file in it
Absent == <<"<absent>">>
AsDirectory(config) == <<"<dir>">> \o config
IsFile(config) == config # Absent /\ Head(config) # "<dir>"

\* restore_backup on the location /etc/ota_config.json, of which the extracted
\* copy holds staged: a location the backup does not contain is skipped; an
\* existing file is unlinked and the copy put in its place; where nothing
\* exists a directory of that name is made, and where a directory exists it
\* is emptied, and shutil.copy2 puts the copy into the directory (a staged
\* directory is copied as one)
restore_file(staged, config) ==
    IF staged = Absent THEN config
    ELSE IF ~IsFile(staged) THEN staged
    ELSE IF IsFile(config) THEN staged
    ELSE AsDirectory(staged)

\* the directory shutil.copy2 did not fill
EmptyDirectory == <<"<dir>">>

\* the archive at backup_path exists and tarfile extracts it
Extracts(dir, backup_path) ==
    \E f \in dir : f.name = backup_path /\ f.size # 0 /\ f.readable

\* BackupManager.restore_backup(backup_path): (success, the configuration file,
\* the installed files) it leaves. An archive that tarfile cannot open or
\* extract raises before any location is touched; otherwise every location is
\* emptied and filled from the extracted copy, /opt/robot-ai first. An
\* exception of any file operation ends the call in the handler at the end,
\* with the locations as they are then: nothing changed when the emptying of
\* /opt/robot-ai raises; /opt/robot-ai restored and /etc/ota_config.json
\* unlinked, or an empty directory in its place, when its copy raises.
restore_backup(dir, backup_path, config, files, rsync) ==
    IF ~Extracts(dir, backup_path)
    THEN [ok |-> FALSE, config |-> config, files |-> files]
    ELSE LET f == CHOOSE f \in dir : f.name = backup_path
         IN  IF rsync = "clear_raises" /\ \E d \in Destinations : files[d].exists
             THEN [ok |-> FALSE, config |-> config, files |-> files]
             ELSE IF rsync = "copy_raises" /\ IsFile(f.snap.config)
             THEN [ok |-> FALSE,
                   config |-> IF IsFile(config) THEN Absent ELSE EmptyDirectory,
                   files |-> f.snap.files]
             ELSE [ok |-> TRUE, config |-> restore_file(f.snap.config, config),
                   files |-> IF rsync = "rsync_nonzero"
                             THEN [d \in DOMAIN files |-> NoFile]
                             ELSE f.snap.files]


\* ----------------------------------------------------------- network client

\* OTAClient.max_retries and OTAClient.retry_delay (seconds)
max_retries == 5
retry_delay == 5

RECURSIVE Pow2(_)
Pow2(n) == IF n = 0 THEN 1 ELSE 2 * Pow2(n - 1)

\* a backoff that grows linearly
backoff_delay_linear(attempt) == retry_delay * attempt

\* delay = self.retry_delay * (2 ** (attempt - 1))
backoff_delay(attempt) == retry_delay * Pow2(attempt - 1)

\* a parsed manifest is a dict: a function on the keys it has
ManifestKeys == {"version", "release_date", "severity", "files"}
FullManifest ==
    [version |-> V110, release_date |-> "2023-05-15", severity |-> "regular",
     files |-> <<>>]
ManifestBodies == {[k \in K |-> FullManifest[k]] : K \in SUBSET ManifestKeys}
NoManifest == [k \in {} |-> 0]

required_fields == <<"version", "release_date">>

\* what the server and the network can answer to one manifest request:
\* URLError (unreachable, refused, timeout while connecting), another exception
\* (a timeout while the body is read), or a body that json.loads parses or not
FetchResponses ==
    {[kind |-> "url_error", parses |-> FALSE, json |-> NoManifest],
     [kind |-> "error", parses |-> FALSE, json |-> NoManifest],
     [kind |-> "body", parses |-> FALSE, json |-> NoManifest]}
        \cup {[kind |-> "body", parses |-> TRUE, json |-> m] : m \in ManifestBodies}

\* what one download request can do: connect fails (the destination is not
\* opened), the body read fails (the destination is already truncated and
\* partly written), or all chunks arrive
DownloadResponses ==
    {[kind |-> k, parses |-> FALSE, json |-> NoManifest] :
        k \in {"connect_error", "read_error", "complete"}}

NoResponse == [kind |-> "none", parses |-> FALSE, json |-> NoManifest]

\* a call of fetch_manifest or download_file before its first attempt; heard is
\* the answer to the last attempt, dest what the call did to the destination
NewCall(op, mock) ==
    [op |-> op, mock |-> mock, attempt |-> 0, waits |-> <<>>, done |-> FALSE,
     ok |-> FALSE, manifest |-> NoManifest, heard |-> NoResponse,
     dest |-> "untouched"]

\* the call returns: no further iteration
Return(c, attempt, resp, ok, manifest) ==
    [c EXCEPT !.attempt = attempt, !.heard = resp, !.done = TRUE, !.ok = ok,
              !.manifest = manifest]

\* the retry branch of both loops: sleep and go on while attempt < max_retries,
\* else give up
RetryOrGiveUp(c, attempt, resp) ==
    IF attempt < max_retries
    THEN [c EXCEPT !.attempt = attempt, !.heard = resp,
                   !.waits = Append(c.waits, backoff_delay(attempt))]
    ELSE Return(c, attempt, resp, FALSE, NoManifest)

\* a fetch loop that treats every unusable answer like an unreachable server
fetch_attempt_retry_all(c, resp) ==
    LET attempt == c.attempt + 1 IN
    IF /\ resp.kind = "body"
       /\ resp.parses
       /\ \A k \in 1..Len(required_fields) : required_fields[k] \in DOMAIN resp.json
    THEN Return(c, attempt, resp, TRUE, resp.json)
    ELSE RetryOrGiveUp(c, attempt, resp)

\* one iteration of the loop of OTAClient.fetch_manifest, answered by resp
fetch_attempt(c, resp) ==
    LET attempt == c.attempt + 1 IN
    IF resp.kind = "body"
    THEN IF ~resp.parses
         THEN Return(c, attempt, resp, FALSE, NoManifest)
         ELSE IF \E k \in 1..Len(required_fields) :
                     required_fields[k] \notin DOMAIN resp.json
         THEN Return(c, attempt, resp, FALSE, NoManifest)
         ELSE IF c.mock /\ "files" \notin DOMAIN resp.json
         THEN Return(c, attempt, resp, TRUE,
                     [k \in DOMAIN resp.json \cup {"files"} |->
                         IF k = "files" THEN <<>> ELSE resp.json[k]])
         ELSE Return(c, attempt, resp, TRUE, resp.json)
    ELSE IF resp.kind = "url_error"
    THEN RetryOrGiveUp(c, attempt, resp)
    ELSE Return(c, attempt, resp, FALSE, NoManifest)

\* one iteration of the loop of OTAClient.download_file, answered by resp
download_attempt(c, resp) ==
    LET attempt == c.attempt + 1 IN
    IF resp.kind = "complete"
    THEN [Return(c, attempt, resp, TRUE, NoManifest) EXCEPT !.dest = "complete"]
    ELSE [RetryOrGiveUp(c, attempt, resp) EXCEPT
             !.dest = IF resp.kind = "read_error" THEN "partial" ELSE c.dest]

\* ------------------------------------------------------------------ SHA-256
\* hashlib.sha256 as FIPS 180-4 defines it. A 32-bit word is the pair
\* <<high half, low half>> of its 16-bit halves.

\* the round constants and the initial hash value
K256 ==
    <<
        <<17034, 12184>>, <<28983, 17553>>, <<46528, 64463>>, <<59829, 56229>>,
        <<14678, 49755>>, <<23025, 4593>>, <<37439, 33444>>, <<43804, 24277>>,
        <<55303, 43672>>, <<4739, 23297>>, <<9265, 34238>>, <<21772, 32195>>,
        <<29374, 23924>>, <<32990, 45566>>, <<39900, 1703>>, <<49563, 61812>>,
        <<58523, 27073>>, <<61374, 18310>>, <<4033, 40390>>, <<9228, 41420>>,
        <<11753, 11375>>, <<19060, 33962>>, <<23728, 43484>>, <<30457, 35034>>,
        <<38974, 20818>>, <<43057, 50797>>, <<45059, 10184>>, <<48985, 32711>>,
        <<50912, 3059>>, <<54695, 37191>>, <<1738, 25425>>, <<5161, 10599>>,
        <<10167, 2693>>, <<11803, 8504>>, <<19756, 28156>>, <<21304, 3347>>,
        <<25866, 29524>>, <<30314, 2747>>, <<33218, 51502>>, <<37490, 11397>>,
        <<41663, 59553>>, <<43034, 26187>>, <<49739, 35696>>, <<51052, 20899>>,
        <<53650, 59417>>, <<54937, 1572>>, <<62478, 13701>>, <<4202, 41072>>,
        <<6564, 49430>>, <<7735, 27656>>, <<10056, 30540>>, <<13488, 48309>>,
        <<14620, 3251>>, <<20184, 43594>>, <<23452, 51791>>, <<26670, 28659>>,
        <<29839, 33518>>, <<30885, 25455>>, <<33992, 30740>>, <<36039, 520>>,
        <<37054, 65530>>, <<42064, 27883>>, <<48889, 41975>>, <<50801, 30962>>
    >>
H256 ==
    <<
        <<27145, 58983>>, <<47975, 44677>>, <<15470, 62322>>, <<42319, 62778>>,
        <<20750, 21119>>, <<39685, 26764>>, <<8067, 55723>>, <<23520, 52505>>
    >>

\* 2^n for n in 0..16
Exp2(n) ==
    <<1, 2, 4, 8, 16, 32, 64, 128, 256, 512, 1024, 2048, 4096, 8192, 16384, 32768,
      65536>>[n + 1]

Half == 65536

\* x >>> n and x >> n
RotR(x, n) ==
    LET y == IF n >= 16 THEN <<x[2], x[1]>> ELSE x
        k == IF n >= 16 THEN n - 16 ELSE n
    IN  <<(y[1] \div Exp2(k)) + (y[2] % Exp2(k)) * Exp2(16 - k),
          (y[2] \div Exp2(k)) + (y[1] % Exp2(k)) * Exp2(16 - k)>>
ShR(x, n) ==
    IF n >= 16
    THEN <<0, x[1] \div Exp2(n - 16)>>
    ELSE <<x[1] \div Exp2(n),
           (x[2] \div Exp2(n)) + (x[1] % Exp2(n)) * Exp2(16 - n)>>

\* x ^ y ^ z on n bits (n a power of two), the two halves apart
RECURSIVE Xor3Bits(_, _, _, _)
Xor3Bits(x, y, z, n) ==
    IF n = 1 THEN (x + y + z) % 2
    ELSE LET h == n \div 2
             p == Exp2(h)
         IN  Xor3Bits(x \div p, y \div p, z \div p, h) * p
                + Xor3Bits(x % p, y % p, z % p, h)
Xor3(x, y, z) == <<Xor3Bits(x[1], y[1], z[1], 16), Xor3Bits(x[2], y[2], z[2], 16)>>

\* (x & y) ^ (~x & z) on n bits
RECURSIVE ChBits(_, _, _, _)
ChBits(x, y, z, n) ==
    IF n = 1 THEN (IF x = 1 THEN y ELSE z)
    ELSE LET h == n \div 2
             p == Exp2(h)
         IN  ChBits(x \div p, y \div p, z \div p, h) * p
                + ChBits(x % p, y % p, z % p, h)
Ch(x, y, z) == <<ChBits(x[1], y[1], z[1], 16), ChBits(x[2], y[2], z[2], 16)>>

\* (x & y) ^ (x & z) ^ (y & z) on n bits
RECURSIVE MajBits(_, _, _, _)
MajBits(x, y, z, n) ==
    IF n = 1 THEN (IF x + y + z >= 2 THEN 1 ELSE 0)
    ELSE LET h == n \div 2
             p == Exp2(h)
         IN  MajBits(x \div p, y \div p, z \div p, h) * p
                + MajBits(x % p, y % p, z % p, h)
Maj(x, y, z) == <<MajBits(x[1], y[1], z[1], 16), MajBits(x[2], y[2], z[2], 16)>>

\* the sum of the words of a sequence, modulo 2^32
RECURSIVE SumHalf(_, _)
SumHalf(ws, h) == IF ws = <<>> THEN 0 ELSE Head(ws)[h] + SumHalf(Tail(ws), h)
Add(ws) ==
    LET lo == SumHalf(ws, 2)
    IN  <<(SumHalf(ws, 1) + (lo \div Half)) % Half, lo % Half>>

BigSigma0(x) == Xor3(RotR(x, 2), RotR(x, 13), RotR(x, 22))
BigSigma1(x) == Xor3(RotR(x, 6), RotR(x, 11), RotR(x, 25))
SmallSigma0(x) == Xor3(RotR(x, 7), RotR(x, 18), ShR(x, 3))
SmallSigma1(x) == Xor3(RotR(x, 17), RotR(x, 19), ShR(x, 10))

\* the message with its padding: 0x80, zeros, the bit length in 8 bytes
Zeros(n) == [k \in 1..n |-> 0]
RECURSIVE BigEndian(_, _)
BigEndian(x, n) ==
    IF n = 0 THEN <<>> ELSE BigEndian(x \div 256, n - 1) \o <<x % 256>>
Padded(bytes) ==
    LET l == Len(bytes)
        z == (64 - ((l + 9) % 64)) % 64
    IN  bytes \o <<128>> \o Zeros(z) \o BigEndian(8 * l, 8)

\* word t (1..64) of the message schedule, appended to the words before it; m
\* is the padded message and off the offset of the block
NextWord(m, off, w) ==
    LET t == Len(w) IN
    IF t < 16
    THEN Append(w, <<m[off + 4 * t + 1] * 256 + m[off + 4 * t + 2],
                     m[off + 4 * t + 3] * 256 + m[off + 4 * t + 4]>>)
    ELSE Append(w, Add(<<SmallSigma1(w[t - 1]), w[t - 6], SmallSigma0(w[t - 14]),
                         w[t - 15]>>))

\* n more words of the schedule (n a power of two)
RECURSIVE Schedule(_, _, _, _)
Schedule(m, off, w, n) ==
    IF n = 1 THEN NextWord(m, off, w)
    ELSE LET first == Schedule(m, off, w, n \div 2)
         IN  IF Len(first) = Len(w) + (n \div 2)
             THEN Schedule(m, off, first, n \div 2)
             ELSE first

\* round t on the working variables v = <<a, b, c, d, e, f, g, h>>
Round(v, w, t) ==
    LET t1 == Add(<<v[8], BigSigma1(v[5]), Ch(v[5], v[6], v[7]), K256[t], w[t]>>)
        t2 == Add(<<BigSigma0(v[1]), Maj(v[1], v[2], v[3])>>)
    IN  <<Add(<<t1, t2>>), v[1], v[2], v[3], Add(<<v[4], t1>>), v[5], v[6], v[7]>>

\* the n rounds t .. t + n - 1 (n a power of two), the first half of them
\* computed before the second half starts
RECURSIVE Rounds(_, _, _, _)
Rounds(v, w, t, n) ==
    IF n = 1 THEN Round(v, w, t)
    ELSE LET first == Rounds(v, w, t, n \div 2)
         IN  IF Len(first) = 8
             THEN Rounds(first, w, t + (n \div 2), n \div 2)
             ELSE first

\* the compression of the blocks from offset off on, h the hash value so far
RECURSIVE Blocks(_, _, _)
Blocks(m, off, h) ==
    IF off >= Len(m) THEN h
    ELSE LET v == Rounds(h, Schedule(m, off, <<>>, 64), 1, 64)
         IN  Blocks(m, off + 64, [i \in 1..8 |-> Add(<<h[i], v[i]>>)])

\* hashlib.sha256(bytes).digest(), as 8 words
sha256(bytes) == Blocks(Padded(bytes), 0, H256)

HexDigits ==
    <<"0", "1", "2", "3", "4", "5", "6", "7", "8", "9", "a", "b", "c", "d", "e", "f">>
RECURSIVE Hex(_, _)
Hex(x, n) == IF n = 0 THEN <<>> ELSE Hex(x \div 16, n - 1) \o <<HexDigits[(x % 16) + 1]>>
RECURSIVE HexWords(_)
HexWords(ws) ==
    IF ws = <<>> THEN <<>>
    ELSE Hex(Head(ws)[1], 4) \o Hex(Head(ws)[2], 4) \o HexWords(Tail(ws))

\* digests computed earlier in the behaviour, by payload: sha256 is a function
\* of the bytes alone, and a digest that is in the table is not computed again
VARIABLE digests

\* hashlib.sha256(bytes).hexdigest()
hexdigest(bytes) ==
    IF bytes \in DOMAIN digests THEN digests[bytes] ELSE HexWords(sha256(bytes))

\* str.lower() on the characters a digest can hold
LowerChar(c) ==
    IF c = "A" THEN "a" ELSE IF c = "B" THEN "b" ELSE IF c = "C" THEN "c"
    ELSE IF c = "D" THEN "d" ELSE IF c = "E" THEN "e" ELSE IF c = "F" THEN "f"
    ELSE c
lower(str) == [k \in 1..Len(str) |-> LowerChar(str[k])]
UpperChar(c) ==
    IF c = "a" THEN "A" ELSE IF c = "b" THEN "B" ELSE IF c = "c" THEN "C"
    ELSE IF c = "d" THEN "D" ELSE IF c = "e" THEN "E" ELSE IF c = "f" THEN "F"
    ELSE c
upper(str) == [k \in 1..Len(str) |-> UpperChar(str[k])]

\* a file on disk: absent (NoFile), present but not readable, or its bytes
FileOf(bytes) == [exists |-> TRUE, readable |-> TRUE, bytes |-> bytes]
Unreadable(bytes) == [exists |-> TRUE, readable |-> FALSE, bytes |-> bytes]

\* a verification that compares the digests as they are written
verify_file_case_sensitive(file, expected_checksum) ==
    file.exists /\ file.readable /\ hexdigest(file.bytes) = expected_checksum

\* OTAClient.verify_file(file_path, expected_checksum)
verify_file(file, expected_checksum) ==
    IF ~file.exists THEN FALSE
    ELSE IF ~file.readable THEN FALSE
    ELSE LET actual_checksum == hexdigest(file.bytes)
         IN  lower(actual_checksum) = lower(expected_checksum)

\* the payloads "a" and "ab" and the SHA-256 digests that sha256sum prints for
\* them
BytesA == <<97>>
BytesAB == <<97, 98>>
DigestA ==
    <<
      "c", "a", "9", "7", "8", "1", "1", "2", "c", "a", "1", "b", "b", "d", "c", "a",
      "f", "a", "c", "2", "3", "1", "b", "3", "9", "a", "2", "3", "d", "c", "4", "d",
      "a", "7", "8", "6", "e", "f", "f", "8", "1", "4", "7", "c", "4", "e", "7", "2",
      "b", "9", "8", "0", "7", "7", "8", "5", "a", "f", "e", "e", "4", "8", "b", "b"
    >>
DigestAB ==
    <<
      "f", "b", "8", "e", "2", "0", "f", "c", "2", "e", "4", "c", "3", "f", "2", "4",
      "8", "c", "6", "0", "c", "3", "9", "b", "d", "6", "5", "2", "f", "3", "c", "1",
      "3", "4", "7", "2", "9", "8", "b", "b", "9", "7", "7", "b", "8", "b", "4", "d",
      "5", "9", "0", "3", "b", "8", "5", "0", "5", "5", "6", "2", "0", "6", "0", "3"
    >>
KnownDigest(bytes) == IF bytes = BytesA THEN DigestA ELSE DigestAB

\* bit b (0..7) of byte k of a payload flipped
FlipBit(bytes, k, b) ==
    [bytes EXCEPT ![k] =
        IF (bytes[k] \div Exp2(b)) % 2 = 1 THEN bytes[k] - Exp2(b)
        ELSE bytes[k] + Exp2(b)]

\* ------------------------------------------------------------------- state

VARIABLES
    now,          \* the wall clock, in seconds
    backup_dir,   \* the files of the backup directory
    retention,    \* BackupManager.backup_retention_count
    bk,           \* the last call of the backup store and what it returned
    written,      \* history: the archives create_backup has opened for writing,
                  \* and what the locations held then
    creates,      \* history: number of create_backup calls so far
    net,          \* the network call in progress, or the last one made
    vf,           \* a call of verify_file: its arguments and what it returned
    version,      \* ConfigManager.version: the installed version, in memory
    config_file,  \* the version /etc/ota_config.json holds on disk
    installed,    \* the files at the update destinations
    rollback_flag, \* whether notifications/rollback_available.json exists
    run,          \* the install run (_apply_update) in progress or ended
    rb,           \* the rollback operations and what they did
    cfg,          \* ConfigManager: what it holds of the last update check
    chk,          \* the last call of check_for_updates and what it did
    tasks,        \* TaskScheduler.tasks: the task of each name
    sched,        \* the last call of _schedule_update and what it did
    scheduler,    \* TaskScheduler.running, .thread and the polling loops alive
    threads,      \* the threads that run a callback, and where each one is
    voice,        \* the command in notifications/ota_voice_command.txt
    hist          \* history: the last call of add_task or remove_task, the
                  \* tasks launched, the tasks cancelled before any launch; the
                  \* commands check_for_voice_command returned, in order

vars ==
    <<now, backup_dir, retention, bk, written, creates, net, vf, version,
      config_file, installed, rollback_flag, run, rb, cfg, chk, tasks, sched,
      scheduler, threads, voice, hist, digests>>
backupVars == <<now, backup_dir, retention, bk, written, creates>>
serviceVars == <<cfg, chk, tasks, sched>>
threadVars == <<scheduler, threads, voice, hist>>
daemonVars ==
    <<version, config_file, installed, rollback_flag, run, rb, serviceVars>>

NoVerify ==
    [payload |-> <<>>, file |-> NoFile, declared |-> <<>>, called |-> FALSE,
     result |-> FALSE]

\* an archive another device left in the same directory
ForeignArchive ==
    ArchiveFile(backup_filename(V100, OtherDeviceId, 0), 0, "complete",
                Staged(V100, NothingStaged, "ok"))

NoCall ==
    [op |-> "none", ok |-> FALSE, name |-> NoPath, atPrune |-> {},
     listing |-> <<>>]

\* the files of version 1.0.0 at the update destinations
OldFiles == [d \in Destinations |-> FileOf(BytesAB)]

\* no install run yet, and no rollback operation yet
NoRun ==
    [pc |-> "idle", version |-> <<>>, update_files |-> <<>>,
     current_version |-> <<>>, i |-> 0, events |-> <<>>,
     at_start |-> OldFiles]
NoRollback ==
    [prepared |-> FALSE, executed |-> FALSE, ok |-> FALSE, latest |-> NoPath,
     events |-> <<>>, at_start |-> <<>>]

\* no digest computed yet
NoDigests == [b \in {} |-> <<>>]

\* the configuration ConfigManager first creates says nothing of a check
\* (None is the empty string of tokens)
NoCheckYet ==
    [last_check_time |-> <<>>, update_available |-> FALSE,
     available_version |-> <<>>]
NoCheck ==
    [called |-> FALSE, network |-> FALSE, returned |-> "nothing",
     manifest |-> NoManifest, events |-> <<>>, cfg |-> NoCheckYet,
     version |-> <<>>]
NoTasks == [n \in {} |-> 0]
NoRequest ==
    [called |-> FALSE, outcome |-> "nothing", scheduled_time |-> <<>>,
     free |-> 0, manifest |-> NoManifest, events |-> <<>>]

\* TaskScheduler.__init__: not running, no thread
\* (orphans: the tasks taken out of the task set that a loop or a thread
\* still refers to)
NotStarted ==
    [running |-> FALSE, thread |-> FALSE, loops |-> EmptyBag,
     orphans |-> NoTasks]
\* no call of add_task or remove_task yet
NoTaskCall == [op |-> "none", name |-> <<>>, task |-> <<>>, before |-> NoTasks]
NoHistory ==
    [call |-> NoTaskCall, launched |-> {}, cancelled |-> {}, effects |-> {},
     said |-> {}, since_block |-> {}, calls |-> 0, returned |-> <<>>]

\* no polling loop and no callback thread yet
ThreadsIdle ==
    /\ scheduler = NotStarted
    /\ threads = EmptyBag
    /\ voice = <<>>
    /\ hist = NoHistory

\* no check, no task and no install request yet
ServicesIdle ==
    /\ cfg = NoCheckYet
    /\ chk = NoCheck
    /\ tasks = NoTasks
    /\ sched = NoRequest
    /\ ThreadsIdle

\* the daemon as ConfigManager first creates its configuration: version 1.0.0,
\* saved, nothing in progress
DaemonIdle ==
    /\ version = V100
    /\ config_file = V100
    /\ installed = OldFiles
    /\ rollback_flag = FALSE
    /\ run = NoRun
    /\ rb = NoRollback
    /\ ServicesIdle
    /\ digests = NoDigests

InitBackup ==
    /\ now = 0
    /\ backup_dir \in {{}, {ForeignArchive}}
    /\ retention \in 0..MaxRetention
    /\ bk = NoCall
    /\ written = {}
    /\ creates = 0
    /\ net = NewCall("none", FALSE)
    /\ vf = NoVerify
    /\ DaemonIdle

\* time passes
Tick ==
    /\ now < MaxClock
    /\ now' = now + 1
    /\ UNCHANGED <<digests, threadVars, backup_dir, retention, bk, written, creates, net,
                   vf, daemonVars>>

\* a call create_backup(ver)
BkCreate ==
    /\ creates < MaxCreates
    /\ \E ver \in {V100, V110}, env \in BackupEnvs :
         \E res \in create_backup(backup_dir, ver, DeviceId, now, retention, env,
                                   config_file, installed) :
            /\ backup_dir' = res.dir
            /\ bk' = [op |-> "create", ok |-> res.ok, name |-> res.name,
                      atPrune |-> res.atPrune,
                      listing |-> <<>>]
            /\ written' = IF res.atPrune = backup_dir /\ ~res.ok
                          THEN written
                          ELSE written \cup {[name |-> res.name, version |-> ver,
                                              t |-> now, config |-> config_file,
                                              files |-> installed]}
    /\ creates' = creates + 1
    /\ UNCHANGED <<digests, threadVars, now, retention, net, vf, daemonVars>>

\* a call get_available_backups()
BkList ==
    /\ \E l \in get_available_backups(backup_dir, DeviceId) :
          bk' = [op |-> "list", ok |-> TRUE, name |-> NoPath,
                 atPrune |-> {}, listing |-> l]
    /\ UNCHANGED <<digests, threadVars, now, backup_dir, retention, written, creates, net,
                   vf, daemonVars>>

\* a call get_latest_backup()
BkLatest ==
    /\ \E p \in get_latest_backup(backup_dir, DeviceId) :
          bk' = [op |-> "latest", ok |-> p # NoPath, name |-> p,
                 atPrune |-> {}, listing |-> <<>>]
    /\ UNCHANGED <<digests, threadVars, now, backup_dir, retention, written, creates, net,
                   vf, daemonVars>>

NextBackup == Tick \/ BkCreate \/ BkList \/ BkLatest

SpecBackup == InitBackup /\ [][NextBackup]_vars


\* ------------------------------------------------------ backup store: claims

Min(a, b) == IF a <= b THEN a ELSE b

\* a step in which create_backup returned success
CreateSucceeded == creates' = creates + 1 /\ bk'.ok

\* C4: create_backup reports success only for an archive that verifies, and when
\* it does not report success no archive file of that attempt remains in the
\* backup directory, so get_latest_backup never selects an unverified archive.
C4_NoUnverifiedArchiveLeft ==
    /\ (bk.op = "create" /\ bk.ok) => _verify_backup(bk.atPrune, bk.name)
    /\ (bk.op = "create" /\ ~bk.ok) =>
          ~\E f \in backup_dir :
              f.name = bk.name /\ ~_verify_backup(backup_dir, f.name)
    /\ (bk.op = "latest" /\ bk.name # NoPath) => _verify_backup(backup_dir, bk.name)

\* C6: every archive written by create_backup(version) for this device that
\* still exists is returned by get_available_backups, most recent first, with
\* the version label passed at creation and the creation time of its file name.
C6_ListingRoundTrips ==
    bk.op = "list" =>
        /\ \A w \in written :
              (\E f \in backup_dir : f.name = w.name) =>
                  \E k \in 1..Len(bk.listing) :
                      /\ bk.listing[k].path = w.name
                      /\ bk.listing[k].version = w.version
                      /\ bk.listing[k].timestamp = w.t
        /\ \A i, j \in 1..Len(bk.listing) :
              i < j => bk.listing[i].timestamp >= bk.listing[j].timestamp

InitNet ==
    /\ DaemonIdle
    /\ now = 0
    /\ backup_dir = {}
    /\ retention = 0
    /\ bk = NoCall
    /\ written = {}
    /\ creates = 0
    /\ net = NewCall("none", FALSE)
    /\ vf = NoVerify

\* a caller enters fetch_manifest (against the mock server or not)
NetFetchStart ==
    /\ net.op = "none" \/ net.done
    /\ \E mock \in BOOLEAN : net' = NewCall("fetch", mock)
    /\ UNCHANGED <<digests, threadVars, backupVars, vf, daemonVars>>

\* a caller enters download_file
NetDownloadStart ==
    /\ net.op = "none" \/ net.done
    /\ net' = NewCall("download", FALSE)
    /\ UNCHANGED <<digests, threadVars, backupVars, vf, daemonVars>>

\* the next iteration of the loop of fetch_manifest
NetFetchAttempt ==
    /\ net.op = "fetch" /\ ~net.done
    /\ \E resp \in FetchResponses : net' = fetch_attempt(net, resp)
    /\ UNCHANGED <<digests, threadVars, backupVars, vf, daemonVars>>

\* the next iteration of the loop of download_file
NetDownloadAttempt ==
    /\ net.op = "download" /\ ~net.done
    /\ \E resp \in DownloadResponses : net' = download_attempt(net, resp)
    /\ UNCHANGED <<digests, threadVars, backupVars, vf, daemonVars>>

NextNet == NetFetchStart \/ NetDownloadStart \/ NetFetchAttempt \/ NetDownloadAttempt

SpecNet == InitNet /\ [][NextNet]_vars


\* ---------------------------------------------------- network client: claims

\* the answer to the last attempt was a failure of the network or the server
AttemptFailed ==
    \/ net.op = "fetch" /\ net.heard.kind = "url_error"
    \/ net.op = "download" /\ net.heard.kind \in {"connect_error", "read_error"}

BadManifest(resp) ==
    /\ resp.kind = "body"
    /\ \/ ~resp.parses
       \/ "version" \notin DOMAIN resp.json
       \/ "release_date" \notin DOMAIN resp.json

\* C9: a manifest that is received but not parseable, or that lacks version or
\* release_date, makes fetch_manifest return failure at once: the call is over
\* with that attempt, no backoff wait is added, no manifest is returned.
C9_BadManifestNotRetried ==
    [][(net'.op = "fetch" /\ net'.attempt = net.attempt + 1
            /\ BadManifest(net'.heard)) =>
          /\ net'.done /\ ~net'.ok
          /\ net'.waits = net.waits
          /\ net'.manifest = NoManifest]_vars

\* C9 witness: after two unreachable attempts a manifest with severity and
\* files but without version has ended the call in failure
C9_Witness ==
    /\ net.op = "fetch" /\ net.done /\ ~net.ok
    /\ net.attempt = 3
    /\ BadManifest(net.heard)
    /\ net.heard.parses
    /\ DOMAIN net.heard.json = {"release_date", "severity", "files"}


\* ------------------------------------------------------- checksum verifier

\* what can be at the path that is verified, for a payload the server declared:
\* the payload itself, the payload with one bit flipped, a file that cannot be
\* read, or nothing
FilesFor(payload) ==
    {FileOf(payload), Unreadable(payload), NoFile}
        \cup {FileOf(FlipBit(payload, k, b)) : k \in 1..Len(payload), b \in 0..7}

\* the checksums a manifest can declare for a payload: its digest in lower or
\* upper case, or the digest of another payload
DeclaredFor(payload) ==
    {KnownDigest(payload), upper(KnownDigest(payload)),
     KnownDigest(IF payload = BytesA THEN BytesAB ELSE BytesA)}

InitVerify ==
    /\ DaemonIdle
    /\ now = 0
    /\ backup_dir = {}
    /\ retention = 0
    /\ bk = NoCall
    /\ written = {}
    /\ creates = 0
    /\ net = NewCall("none", FALSE)
    /\ \E payload \in {BytesA, BytesAB} :
         \E file \in FilesFor(payload), declared \in DeclaredFor(payload) :
            vf = [payload |-> payload, file |-> file, declared |-> declared,
                  called |-> FALSE, result |-> FALSE]

\* a call verify_file(path, declared)
VerifyCall ==
    /\ ~vf.called
    /\ vf' = [vf EXCEPT !.called = TRUE,
                        !.result = verify_file(vf.file, vf.declared)]
    /\ UNCHANGED <<digests, threadVars, backupVars, net, daemonVars>>

NextVerify == VerifyCall

SpecVerify == InitVerify /\ [][NextVerify]_vars

\* C10: verify_file returns true exactly when the digest of the file's current
\* bytes equals the declared checksum, compared without regard to case: the
\* unmodified payload verifies against its own digest in either case and
\* against no other digest, the payload with any single bit flipped does not
\* verify, and a missing or unreadable file does not verify.
C10_VerifyFile ==
    vf.called =>
        LET own == lower(vf.declared) = KnownDigest(vf.payload) IN
        /\ (vf.file = FileOf(vf.payload)) => (vf.result <=> own)
        /\ (vf.file.exists /\ vf.file.readable /\ vf.file.bytes # vf.payload) =>
              ~vf.result
        /\ (~vf.file.exists \/ ~vf.file.readable) => ~vf.result

\* C10 witness: the payload "ab" with bit 3 of its second byte flipped has been
\* verified against the upper-case digest of "ab" and rejected
C10_Witness ==
    /\ vf.called /\ ~vf.result
    /\ vf.payload = BytesAB
    /\ vf.file = FileOf(FlipBit(BytesAB, 2, 3))
    /\ vf.declared = upper(DigestAB)

\* C10 witness of the accepting case: the unmodified payload has been verified
\* against its digest in upper case
C10_WitnessAccept ==
    /\ vf.called /\ vf.result
    /\ vf.file = FileOf(vf.payload)
    /\ vf.declared = upper(KnownDigest(vf.payload))


\* ------------------------------------------------- orchestrator: install run

\* the entries of a manifest's "files" list are dicts: functions on their keys.
\* The server sends the bytes "a" for every path; the checksum of app.bin is
\* the digest of those bytes, lib.bin comes without a checksum, tool.bin with
\* the digest of other bytes, and the last entry lacks its destination.
Served == BytesA
FileGood ==
    [path |-> "app.bin", destination |-> "/opt/robot-ai/app.bin",
     checksum |-> DigestA]
FileNoSum == [path |-> "lib.bin", destination |-> "/opt/robot-ai/lib.bin"]
FileBad ==
    [path |-> "tool.bin", destination |-> "/opt/robot-ai/lib.bin",
     checksum |-> DigestAB]
FileMalformed == [path |-> "app.bin", checksum |-> DigestA]
FileInfos == {FileGood, FileNoSum, FileBad, FileMalformed}

\* the lists of at most MaxFiles entries
UpdateFileLists ==
    UNION {[1..n -> FileInfos] : n \in 0..MaxFiles}

\* dict.get(key): None is the empty string of tokens, which is as falsy
None == <<>>
Get(d, key) == IF key \in DOMAIN d THEN d[key] ELSE None

\* what the network does to the attempts of one download_file call: all chunks
\* at once, a broken read and then all chunks, or five failures of one kind
DownloadResponse(kind) == [kind |-> kind, parses |-> FALSE, json |-> NoManifest]
DownloadScripts ==
    {<<DownloadResponse("complete")>>,
     <<DownloadResponse("read_error"), DownloadResponse("complete")>>,
     [k \in 1..max_retries |-> DownloadResponse("read_error")],
     [k \in 1..max_retries |-> DownloadResponse("connect_error")]}

\* OTAClient.download_file: the loop, answered by the responses of script
RECURSIVE download_file(_, _)
download_file(c, script) ==
    IF c.done \/ script = <<>> THEN c
    ELSE download_file(download_attempt(c, Head(script)), Tail(script))

\* a download into a staging file that is never moved to the destination
Downloaded_staged(file, c) == file

\* the destination file after a download_file call
Downloaded(file, c) ==
    IF c.dest = "complete" THEN FileOf(Served)
    ELSE IF c.dest = "partial" THEN FileOf(<<>>)
    ELSE file

\* what a run emits: progress and result notifications, reports to the server,
\* and a record of each call it makes (i is the index of the file, or the
\* numerator of a progress with denominator n)
Event(e, i, ok) == [e |-> e, i |-> i, ok |-> ok, n |-> 1]
Progress(num, den) == [e |-> "progress", i |-> num, ok |-> TRUE, n |-> den]
Emit(r, evs) == [r EXCEPT !.events = r.events \o evs]

\* _apply_update up to the call of create_backup
apply_update_start(ver, update_files, current, files) ==
    [pc |-> "backup", version |-> ver, update_files |-> update_files,
     current_version |-> current, i |-> 0, events |-> <<Progress(10, 1)>>,
     at_start |-> files]

\* the handler of `except Exception`: report the failure, notify the user
unexpected(r) ==
    [Emit(r, <<Event("report", 0, FALSE), Event("result", 0, FALSE)>>)
        EXCEPT !.pc = "done"]

\* a run that goes on after a failed backup
after_backup_no_return(r, success) ==
    [Emit(r, <<Event("backup", 0, success), Progress(30, 1)>>)
        EXCEPT !.pc = IF Len(r.update_files) = 0 THEN "commit" ELSE "download"]

\* _apply_update from the return of create_backup to the loop over the files
after_backup(r, success) ==
    IF ~success
    THEN [Emit(r, <<Event("backup", 0, FALSE), Event("result", 0, FALSE)>>)
             EXCEPT !.pc = "done"]
    ELSE [Emit(r, <<Event("backup", 0, TRUE), Progress(30, 1)>>)
             EXCEPT !.pc = IF Len(r.update_files) = 0 THEN "commit"
                           ELSE "download"]

\* the loop body from the return of download_file to the checksum
after_download(r, success) ==
    IF ~success
    THEN [Emit(r, <<Event("download", r.i + 1, FALSE), Event("result", 0, FALSE)>>)
             EXCEPT !.pc = "done"]
    ELSE [Emit(r, <<Event("download", r.i + 1, TRUE)>>) EXCEPT !.pc = "verify"]

\* the rest of the loop body when the file passed or had no checksum
next_file(r, checksum) ==
    LET n == Len(r.update_files) IN
    [Emit(r, (IF checksum # None THEN <<Event("verify", r.i + 1, TRUE)>>
              ELSE <<>>) \o <<Progress(30 * n + 50 * (r.i + 1), n)>>)
        EXCEPT !.i = r.i + 1,
               !.pc = IF r.i + 1 = n THEN "commit" ELSE "download"]

\* a run that goes on after a failed verification
after_verify_no_return(r, checksum, verified) ==
    IF checksum # None /\ ~verified
    THEN LET n == Len(r.update_files) IN
         [Emit(r, <<Event("verify", r.i + 1, FALSE),
                    Progress(30 * n + 50 * (r.i + 1), n)>>)
             EXCEPT !.i = r.i + 1,
                    !.pc = IF r.i + 1 = n THEN "commit" ELSE "download"]
    ELSE next_file(r, checksum)

\* the loop body from `if checksum and not verify_file(...)` on; verified is
\* looked at only when a checksum is there
after_verify(r, checksum, verified) ==
    IF checksum # None /\ ~verified
    THEN [Emit(r, <<Event("verify", r.i + 1, FALSE), Event("result", 0, FALSE)>>)
             EXCEPT !.pc = "done"]
    ELSE next_file(r, checksum)

\* _apply_update after the loop; saved tells whether the assignment to
\* config_manager.version returned or _save_config raised
after_loop(r, saved) ==
    IF saved
    THEN [Emit(r, <<Progress(100, 1), Event("commit", 0, TRUE),
                    Event("report", 0, TRUE), Event("result", 0, TRUE)>>)
             EXCEPT !.pc = "done"]
    ELSE unexpected(Emit(r, <<Progress(100, 1), Event("commit", 0, FALSE)>>))

\* ---------------------------------------------------- orchestrator: rollback

\* OTADaemon._execute_rollback: what it can do to the version, the
\* configuration file and the installed files, and what it emits. The listing
\* of get_latest_backup and the one of get_available_backups are two calls;
\* rsync is what the copy of restore_backup does, saved whether the assignment
\* to config_manager.version returned or _save_config raised.
_execute_rollback(dir, dev, ver, config, files) ==
    UNION {
        IF latest = NoPath
        THEN {[ok |-> FALSE, latest |-> latest, version |-> ver,
               config |-> config, files |-> files, events |-> <<>>]}
        ELSE UNION {
            LET res == restore_backup(dir, latest, config, files, rsync) IN
            IF ~res.ok
            THEN {[ok |-> FALSE, latest |-> latest, version |-> ver,
                   config |-> res.config, files |-> res.files,
                   events |-> <<Event("restore", 0, FALSE),
                                Event("result", 0, FALSE)>>]}
            ELSE UNION {
                IF backups = <<>>
                THEN {[ok |-> TRUE, latest |-> latest, version |-> ver,
                       config |-> res.config, files |-> res.files,
                       events |-> <<Event("restore", 0, TRUE),
                                    Event("result", 0, TRUE)>>]}
                ELSE {[ok |-> saved, latest |-> latest,
                       version |-> backups[1].version,
                       config |-> IF saved THEN backups[1].version
                                  ELSE res.config,
                       files |-> res.files,
                       events |-> <<Event("restore", 0, TRUE),
                                    Event("commit", 0, saved),
                                    Event("result", 0, saved)>>] :
                          saved \in BOOLEAN} :
                   backups \in get_available_backups(dir, dev)} :
               rsync \in RestoreOutcomes} :
           latest \in get_latest_backup(dir, dev)}


\* a confirmation that executes the rollback whether or not one was offered
handle_confirmation_no_flag(flag, dir, dev, ver, config, files) ==
    _execute_rollback(dir, dev, ver, config, files)

\* OTADaemon._handle_confirmation: flag tells whether the rollback flag file
\* exists; without it nothing is done
_handle_confirmation(flag, dir, dev, ver, config, files) ==
    IF ~flag
    THEN {[ok |-> FALSE, latest |-> NoPath, version |-> ver, config |-> config,
           files |-> files, events |-> <<>>]}
    ELSE _execute_rollback(dir, dev, ver, config, files)

\* ------------------------------------------------------------ task scheduler

\* datetime values are seconds since midnight of the first day the clock can
\* show; the clock shows 10:30:00 and 10:30:01 of each day
SecondsPerDay == 86400
SecondsPerHour == 3600
SecondsPerMinute == 60
HalfPastTen == 37800
Instant(t) ==
    (t \div Len(TimeToks)) * SecondsPerDay + HalfPastTen + (t % Len(TimeToks))

\* an optional value: None, or the value in a string of one
Some(x) == <<x>>

\* int(s) for the two-digit strings that occur, -1 for a ValueError
int(s) ==
    IF Len(s) # 1 THEN -1
    ELSE CASE s[1] = "00" -> 0
           [] s[1] = "03" -> 3
           [] s[1] = "10" -> 10
           [] s[1] = "23" -> 23
           [] s[1] = "24" -> 24
           [] s[1] = "29" -> 29
           [] s[1] = "30" -> 30
           [] s[1] = "31" -> 31
           [] s[1] = "59" -> 59
           [] OTHER -> -1

\* "HH:MM" strings, one with an hour no day has, and one without a colon
HHMM(h, m) == <<h, ":", m>>
ScheduleTimes ==
    {HHMM("10", "30"), HHMM("10", "31"), HHMM("10", "29"), HHMM("03", "00"),
     HHMM("00", "00"), HHMM("23", "59")}
BadScheduleTimes == {HHMM("24", "00"), <<"0300">>}

\* now.replace(hour=hour, minute=minute, second=0, microsecond=0)
replace(dt, hour, minute) ==
    (dt \div SecondsPerDay) * SecondsPerDay + hour * SecondsPerHour
        + minute * SecondsPerMinute

\* a computation that keeps today's time when it is the present instant
calculate_next_execution_lt(schedule_time, dt) ==
    IF schedule_time = None THEN Some(dt)
    ELSE LET parts == split(schedule_time, ":") IN
         IF Len(parts) # 2 THEN None
         ELSE LET hour == int(parts[1])
                  minute == int(parts[2])
              IN  IF hour \notin 0..23 \/ minute \notin 0..59 THEN None
                  ELSE LET scheduled_time == replace(dt, hour, minute) IN
                       IF scheduled_time < dt
                       THEN Some(scheduled_time + SecondsPerDay)
                       ELSE Some(scheduled_time)

\* a computation that falls back to "at once" when the schedule time cannot
\* be parsed
calculate_next_execution_lenient(schedule_time, dt) ==
    LET parts == IF schedule_time = None THEN <<>>
                 ELSE split(schedule_time, ":")
        hour == IF Len(parts) = 2 THEN int(parts[1]) ELSE -1
        minute == IF Len(parts) = 2 THEN int(parts[2]) ELSE -1
    IN  IF hour \notin 0..23 \/ minute \notin 0..59 THEN Some(dt)
        ELSE LET scheduled_time == replace(dt, hour, minute) IN
             IF scheduled_time <= dt
             THEN Some(scheduled_time + SecondsPerDay)
             ELSE Some(scheduled_time)

\* Task._calculate_next_execution at the instant dt: the next execution, or
\* None when the schedule time makes the computation raise
_calculate_next_execution(schedule_time, dt) ==
    IF schedule_time = None THEN Some(dt)
    ELSE LET parts == split(schedule_time, ":") IN
         IF Len(parts) # 2 THEN None
         ELSE LET hour == int(parts[1])
                  minute == int(parts[2])
              IN  IF hour \notin 0..23 \/ minute \notin 0..59 THEN None
                  ELSE LET scheduled_time == replace(dt, hour, minute) IN
                       IF scheduled_time <= dt
                       THEN Some(scheduled_time + SecondsPerDay)
                       ELSE Some(scheduled_time)

\* Task.__init__ at the instant dt; created and executions are history: the
\* instant of the construction, and what each call of execute did
Task(name, callback, schedule_time, kwargs, dt) ==
    [name |-> name, callback |-> callback, schedule_time |-> schedule_time,
     kwargs |-> kwargs, last_executed |-> None,
     next_execution |-> _calculate_next_execution(schedule_time, dt),
     created |-> dt, executions |-> <<>>]

\* one call of execute: when, whether the callback raised, what was returned
Execution(dt, raised, returned) ==
    [at |-> dt, raised |-> raised, returned |-> returned]

\* an execute that leaves a task whose callback raised as it was
execute_no_stamp(task, dt, raised) ==
    IF raised
    THEN [task EXCEPT !.executions = Append(@, Execution(dt, TRUE, FALSE))]
    ELSE [task EXCEPT
             !.last_executed = Some(dt),
             !.next_execution = _calculate_next_execution(task.schedule_time, dt),
             !.executions = Append(@, Execution(dt, FALSE, TRUE))]

\* Task.execute at the instant dt, the callback returning or raising an
\* Exception
execute(task, dt, raised) ==
    [task EXCEPT
        !.last_executed = Some(dt),
        !.next_execution = _calculate_next_execution(task.schedule_time, dt),
        !.executions = Append(@, Execution(dt, raised, ~raised))]

\* Task.is_due at the instant dt
is_due(task, dt) ==
    IF task.next_execution = None THEN FALSE
    ELSE dt >= task.next_execution[1]

\* an add_task that keeps the task a name already has
add_task_keep_first(ts, task) ==
    [n \in DOMAIN ts \cup {task.name} |->
        IF n \in DOMAIN ts THEN ts[n] ELSE task]

\* TaskScheduler.add_task: self.tasks[task.name] = task
add_task(ts, task) ==
    [n \in DOMAIN ts \cup {task.name} |-> IF n = task.name THEN task ELSE ts[n]]

\* TaskScheduler.remove_task: del self.tasks[task_name] if the name is there
remove_task(ts, task_name) ==
    IF task_name \in DOMAIN ts
    THEN [n \in DOMAIN ts \ {task_name} |-> ts[n]]
    ELSE ts

\* f"update_install_{version.replace('.', '_')}"
update_install_name(ver) ==
    <<"update", "_", "install", "_">>
        \o [k \in 1..Len(ver) |-> IF ver[k] = "." THEN "_" ELSE ver[k]]

\* TaskScheduler.schedule_update
schedule_update(ts, update_time, ver, update_files, dt) ==
    add_task(ts, Task(update_install_name(ver), "_apply_update", update_time,
                      [version |-> ver, update_files |-> update_files], dt))

\* -------------------------------------------- orchestrator: update check

\* version label "0.9.0", older than every installed version
V090 == <<"0", ".", "9", ".", "0">>

\* class UpdateSeverity
UpdateSeverity == {"critical", "security", "regular", "feature"}

\* datetime.isoformat()
isoformat(t) ==
    <<DateToks[(t \div Len(TimeToks)) + 1], "T", TimeToks[(t % Len(TimeToks)) + 1]>>

\* the manifests the server can hold when the daemon checks: the installed
\* version, an older and a newer one; a severity of the enumeration, none, or
\* one the enumeration does not have
Manifest(ver, files) ==
    [version |-> ver, release_date |-> "2023-05-15", files |-> files]
WithSeverity(m, sev) ==
    [k \in DOMAIN m \cup {"severity"} |-> IF k = "severity" THEN sev ELSE m[k]]
CheckManifests ==
    {WithSeverity(Manifest(V100, <<>>), "regular"),
     WithSeverity(Manifest(V090, <<>>), "security"),
     Manifest(V110, <<>>),
     WithSeverity(Manifest(V110, <<>>), "critical"),
     WithSeverity(Manifest(V110, <<>>), "urgent")}

\* what the network does to the attempts of one fetch_manifest call: a
\* manifest at once, one after an unreachable server, five times no server,
\* or a body that is no JSON
Body(m) == [kind |-> "body", parses |-> TRUE, json |-> m]
UrlError == [kind |-> "url_error", parses |-> FALSE, json |-> NoManifest]
NotJson == [kind |-> "body", parses |-> FALSE, json |-> NoManifest]
FetchScripts(manifests) ==
    {<<Body(m)>> : m \in manifests}
        \cup {<<UrlError, Body(Manifest(V110, <<>>))>>,
              [k \in 1..max_retries |-> UrlError], <<NotJson>>}

\* OTAClient.fetch_manifest: the loop, answered by the responses of script
RECURSIVE fetch_manifest(_, _)
fetch_manifest(c, script) ==
    IF c.done \/ script = <<>> THEN c
    ELSE fetch_manifest(fetch_attempt(c, Head(script)), Tail(script))

\* a check that notifies every update as a regular one
severity_of_regular(manifest) == "regular"

\* the severity check_for_updates hands to notify_update_available
severity_of(manifest) ==
    IF "severity" \in DOMAIN manifest
    THEN IF manifest.severity \in UpdateSeverity THEN manifest.severity
         ELSE "regular"
    ELSE "regular"

\* the three assignments of check_for_updates, in their order; each one writes
\* the value in memory and then saves the configuration
ConfigFields == <<"last_check_time", "update_available", "available_version">>
Assign(old, new, n) ==
    [f \in DOMAIN old |->
        IF \E k \in 1..n : ConfigFields[k] = f THEN new[f] ELSE old[f]]

\* the update-available notification
UpdateAvailable(ver, severity) ==
    [e |-> "update_available", version |-> ver, severity |-> severity]

\* a skipped check that records when it was made
skip_check_stamped(old, c, t) ==
    [returned |-> "None", cfg |-> [old EXCEPT !.last_check_time = isoformat(t)],
     manifest |-> NoManifest, events |-> <<>>, saved |-> TRUE, call |-> c]

\* the two early returns of check_for_updates, at the instant t: nothing is
\* assigned, nothing notified
skip_check(old, c, t) ==
    [returned |-> "None", cfg |-> old, manifest |-> NoManifest,
     events |-> <<>>, saved |-> FALSE, call |-> c]

\* OTADaemon.check_for_updates at instant t with ver installed: network is
\* what check_network returns, script what the server answers, saves the number
\* of assignments to the configuration that go through before _save_config
\* raises (all of them: none raises)
check_for_updates(ver, old, network, script, t, saves) ==
    LET c == fetch_manifest(NewCall("fetch", FALSE), script)
    IN  IF ~network THEN skip_check(old, c, t)
        ELSE IF ~c.ok THEN skip_check(old, c, t)
        ELSE LET manifest == c.manifest
                 same == manifest.version = ver
                 new  == [last_check_time |-> isoformat(t),
                          update_available |-> ~same,
                          available_version |->
                              IF same THEN None ELSE manifest.version]
             IN  IF saves < Len(ConfigFields)
                 THEN [returned |-> "raised",
                       cfg |-> Assign(old, new, saves + 1),
                       manifest |-> NoManifest, events |-> <<>>,
                       saved |-> saves > 0, call |-> c]
                 ELSE [returned |-> "manifest", cfg |-> new,
                       manifest |-> manifest,
                       events |-> IF same THEN <<>>
                                  ELSE <<UpdateAvailable(manifest.version,
                                                         severity_of(manifest))>>,
                       saved |-> TRUE, call |-> c]

\* ------------------------------------------ orchestrator: install request

\* bytes of a megabyte, and the two fixed terms of the requirement (MB)
Mb == 1048576
backup_size_mb == 500
buffer_mb == 100

\* an entry of "files" that declares its size
Sized(f, n) ==
    [k \in DOMAIN f \cup {"size_bytes"} |-> IF k = "size_bytes" THEN n ELSE f[k]]

\* the manifests the server can hold when an install is requested: no file,
\* one file of 1 MB, a file of one byte and a file that declares no size, and
\* a file of 1 MB whose checksum is wrong
ScheduleFileLists ==
    {<<>>, <<Sized(FileGood, Mb)>>, <<Sized(FileGood, 1), FileNoSum>>,
     <<Sized(FileBad, Mb)>>}
ScheduleManifests ==
    {WithSeverity(Manifest(V110, fl), "regular") : fl \in ScheduleFileLists}
ScheduleScripts ==
    {<<Body(m)>> : m \in ScheduleManifests}
        \cup {[k \in 1..max_retries |-> UrlError]}

\* the free bytes shutil.disk_usage("/") can report
FreeSpaces ==
    {(backup_size_mb + buffer_mb) * Mb + d : d \in {-1, 0, 1, Mb - 1, Mb}}

\* sum of file_info.get("size_bytes", 0), in bytes
RECURSIVE SumSizes(_)
SumSizes(files) ==
    IF files = <<>> THEN 0
    ELSE (IF "size_bytes" \in DOMAIN Head(files) THEN Head(files).size_bytes
          ELSE 0) + SumSizes(Tail(files))

\* a check that forgets the safety buffer
check_disk_space_no_buffer(manifest, free) ==
    free >= SumSizes(Get(manifest, "files")) + backup_size_mb * Mb

\* OTADaemon._check_disk_space. The code compares free / 2^20 with the sum of
\* the size_bytes / 2^20 plus 500 plus 100 in floating point; a division by
\* 2^20 is exact, so the comparison is the one of the byte counts.
_check_disk_space(manifest, free) ==
    free >= SumSizes(Get(manifest, "files")) + (backup_size_mb + buffer_mb) * Mb

\* OTADaemon._schedule_update(scheduled_time) at the instant dt: what it emits,
\* the tasks it leaves, and whether it enters _apply_update
_schedule_update(scheduled_time, script, free, ts, dt) ==
    LET c == fetch_manifest(NewCall("fetch", FALSE), script)
        manifest == c.manifest
    IN  IF ~c.ok
        THEN [outcome |-> "no_manifest", manifest |-> NoManifest,
              events |-> <<>>, tasks |-> ts, call |-> c]
        ELSE IF ~_check_disk_space(manifest, free)
        THEN [outcome |-> "insufficient", manifest |-> manifest,
              events |-> <<Event("result", 0, FALSE)>>, tasks |-> ts,
              call |-> c]
        ELSE IF scheduled_time # None
        THEN [outcome |-> "scheduled", manifest |-> manifest,
              events |-> <<Event("scheduled", 0, TRUE)>>,
              tasks |-> schedule_update(ts, scheduled_time, manifest.version,
                                        Get(manifest, "files"), dt),
              call |-> c]
        ELSE [outcome |-> "started", manifest |-> manifest,
              events |-> <<Progress(0, 1)>>, tasks |-> ts, call |-> c]

\* ------------------------------------------------- orchestrator: behaviour

\* BackupManager.backup_retention_count as ConfigManager first sets it
backup_retention_count == 2

\* the archive of an earlier install run of this device that did not go
\* through: taken at instant 0, while version 1.0.0 was installed
PriorArchive ==
    ArchiveFile(backup_filename(V100, DeviceId, 0), 0, "complete",
                Staged(V100, OldFiles, "ok"))

\* the daemon at instant 1 with version 1.0.0 installed. The rollback flag is
\* a file that outlives the process, so it may be there.
Init ==
    /\ digests = [b \in {Served, <<>>} |-> HexWords(sha256(b))]
    /\ now = 1
    /\ retention = backup_retention_count
    /\ bk = NoCall
    /\ creates = 0
    /\ \/ backup_dir = {ForeignArchive} /\ written = {}
       \/ /\ backup_dir = {ForeignArchive, PriorArchive}
          /\ written = {[name |-> PriorArchive.name, version |-> V100, t |-> 0,
                          config |-> V100, files |-> OldFiles]}
    /\ net = NewCall("none", FALSE)
    /\ vf = NoVerify
    /\ version = V100
    /\ config_file = V100
    /\ installed = OldFiles
    /\ rollback_flag \in BOOLEAN
    /\ run = NoRun
    /\ rb = NoRollback
    /\ ServicesIdle

\* _apply_update(version, update_files) is entered
ApplyStart ==
    /\ run.pc = "idle"
    /\ \E update_files \in UpdateFileLists :
          run' = apply_update_start(V110, update_files, version, installed)
    /\ UNCHANGED <<digests, threadVars, backupVars, net, vf, version, config_file,
                   installed, rollback_flag, rb,
                   serviceVars>>

\* the run calls create_backup(current_version)
ApplyBackup ==
    /\ run.pc = "backup"
    /\ \E env \in BackupEnvs :
         \E res \in create_backup(backup_dir, run.current_version, DeviceId, now,
                                   retention, env, config_file, installed) :
            /\ backup_dir' = res.dir
            /\ bk' = [op |-> "create", ok |-> res.ok, name |-> res.name,
                      atPrune |-> res.atPrune, listing |-> <<>>]
            /\ written' = IF res.atPrune = backup_dir /\ ~res.ok
                          THEN written
                          ELSE written \cup {[name |-> res.name,
                                              version |-> run.current_version,
                                              t |-> now, config |-> config_file,
                                              files |-> installed]}
            /\ run' = after_backup(run, res.ok)
    /\ creates' = creates + 1
    /\ UNCHANGED <<digests, threadVars, now, retention, net, vf, version, config_file,
                   installed, rollback_flag, rb,
                   serviceVars>>

\* the run reads the next entry and calls download_file; an entry without
\* "path" or "destination" raises KeyError
ApplyDownload ==
    /\ run.pc = "download"
    /\ LET file_info == run.update_files[run.i + 1] IN
       IF "path" \notin DOMAIN file_info \/ "destination" \notin DOMAIN file_info
       THEN /\ run' = unexpected(run)
            /\ UNCHANGED <<net, installed>>
       ELSE \E script \in DownloadScripts :
               LET c == download_file(NewCall("download", FALSE), script) IN
               /\ net' = c
               /\ installed' =
                     [installed EXCEPT ![file_info.destination] =
                         Downloaded(installed[file_info.destination], c)]
               /\ run' = after_download(run, c.ok)
    /\ UNCHANGED <<digests, threadVars, backupVars, vf, version, config_file, rollback_flag,
                   rb,
                   serviceVars>>

\* the run verifies the file it downloaded, if the entry has a checksum
ApplyVerify ==
    /\ run.pc = "verify"
    /\ LET file_info == run.update_files[run.i + 1]
           checksum  == Get(file_info, "checksum")
       IN  run' = after_verify(run, checksum,
                               verify_file(installed[file_info.destination],
                                           checksum))
    /\ UNCHANGED <<digests, threadVars, backupVars, net, vf, version, config_file,
                   installed, rollback_flag, rb,
                   serviceVars>>

\* the run sets config_manager.version: the value in memory changes, then the
\* configuration is saved, which can raise
ApplyCommit ==
    /\ run.pc = "commit"
    /\ \E saved \in BOOLEAN :
          /\ version' = run.version
          /\ config_file' = IF saved THEN run.version ELSE config_file
          /\ run' = after_loop(run, saved)
    /\ UNCHANGED <<digests, threadVars, backupVars, net, vf, installed, rollback_flag, rb,
                   serviceVars>>

\* the voice command "rollback": _prepare_rollback
PrepareRollback ==
    /\ run.pc = "done"
    /\ ~rb.prepared
    /\ \E latest \in get_latest_backup(backup_dir, DeviceId),
          backups \in get_available_backups(backup_dir, DeviceId) :
          IF latest = NoPath
          THEN /\ rb' = [rb EXCEPT !.prepared = TRUE,
                                   !.events = @ \o <<Event("result", 0, FALSE)>>]
               /\ UNCHANGED rollback_flag
          ELSE IF backups = <<>>
          THEN /\ rb' = [rb EXCEPT !.prepared = TRUE]
               /\ UNCHANGED rollback_flag
          ELSE /\ rb' = [rb EXCEPT !.prepared = TRUE,
                                   !.events = @ \o <<Event("rollback_available",
                                                           0, TRUE)>>]
               /\ rollback_flag' = TRUE
    /\ UNCHANGED <<digests, threadVars, backupVars, net, vf, version, config_file,
                   installed, run,
                   serviceVars>>

\* the voice command "confirm": _handle_confirmation, which executes the
\* rollback when the flag is there
HandleConfirmation ==
    /\ run.pc = "done"
    /\ ~rb.executed
    /\ \E out \in _handle_confirmation(rollback_flag, backup_dir, DeviceId,
                                        version, config_file, installed) :
          /\ rb' = [rb EXCEPT !.executed = TRUE, !.ok = out.ok,
                              !.latest = out.latest,
                              !.events = @ \o out.events,
                              !.at_start = version]
          /\ version' = out.version
          /\ config_file' = out.config
          /\ installed' = out.files
    /\ UNCHANGED <<digests, threadVars, backupVars, net, vf, rollback_flag, run,
                   serviceVars>>

Next ==
    \/ ApplyStart
    \/ ApplyBackup
    \/ ApplyDownload
    \/ ApplyVerify
    \/ ApplyCommit
    \/ PrepareRollback
    \/ HandleConfirmation

Spec == Init /\ [][Next]_vars


\* ------------------------------------------- orchestrator: whole lifecycle

\* the tasks _setup_scheduled_tasks adds at the instant dt: the check at the
\* first of the configured update_check_times (those at the later ones differ
\* by the hour only), and the voice command check
update_check_times == <<HHMM("03", "00")>>
StartupTasks(dt) ==
    add_task(
        add_task(NoTasks,
                 Task(<<"update", "_", "check", "_", "0300">>,
                      "check_for_updates", update_check_times[1],
                      NoManifest, dt)),
        Task(<<"voice", "_", "command", "_", "check">>, "check_voice_commands",
             None, NoManifest, dt))

\* the daemon at instant 1, constructed then, with version 1.0.0 installed
InitDaemon ==
    /\ digests = [b \in {Served, <<>>} |-> HexWords(sha256(b))]
    /\ now = 1
    /\ retention = backup_retention_count
    /\ bk = NoCall
    /\ creates = 0
    /\ backup_dir = {ForeignArchive} /\ written = {}
    /\ net = NewCall("none", FALSE)
    /\ vf = NoVerify
    /\ version = V100
    /\ config_file = V100
    /\ installed = OldFiles
    /\ rollback_flag \in BOOLEAN
    /\ run = NoRun
    /\ rb = NoRollback
    /\ cfg = NoCheckYet
    /\ chk = NoCheck
    /\ tasks = StartupTasks(Instant(1))
    /\ sched = NoRequest
    /\ ThreadsIdle

\* time passes while no install run is in progress
Sleep ==
    /\ now < MaxClock
    /\ run.pc \in {"idle", "done"}
    /\ now' = now + 1
    /\ UNCHANGED <<digests, threadVars, backup_dir, retention, bk, written, creates, net,
                   vf, daemonVars>>

\* the names of the due tasks with the callback cb
Due(cb) ==
    {n \in DOMAIN tasks :
        tasks[n].callback = cb /\ is_due(tasks[n], Instant(now))}

\* check_for_updates is called, by the control interface or by a due
\* update_check task, whose execute then stamps it
CheckForUpdates ==
    /\ run.pc = "idle"
    /\ ~chk.called
    /\ ~sched.called
    /\ \E network \in BOOLEAN, script \in FetchScripts(CheckManifests),
          saves \in 0..Len(ConfigFields) :
          LET out == check_for_updates(version, cfg, network, script, now, saves)
          IN  /\ cfg' = out.cfg
              /\ chk' = [called |-> TRUE, network |-> network,
                         returned |-> out.returned, manifest |-> out.manifest,
                         events |-> out.events, cfg |-> cfg,
                         version |-> version]
              /\ config_file' = IF out.saved THEN version ELSE config_file
              /\ net' = IF network THEN out.call ELSE net
              /\ \/ UNCHANGED tasks
                 \/ \E n \in Due("check_for_updates") :
                       tasks' = [tasks EXCEPT
                                    ![n] = execute(@, Instant(now),
                                                   out.returned = "raised")]
    /\ UNCHANGED <<digests, threadVars, backupVars, vf, version, installed, rollback_flag,
                   run, rb, sched>>

\* the voice commands "install now" and "install tonight": _schedule_update
ScheduleUpdate ==
    /\ run.pc = "idle"
    /\ ~sched.called
    /\ \E scheduled_time \in {None, HHMM("03", "00")},
          script \in ScheduleScripts, free \in FreeSpaces :
          LET out == _schedule_update(scheduled_time, script, free, tasks,
                                      Instant(now))
          IN  /\ sched' = [called |-> TRUE, outcome |-> out.outcome,
                           scheduled_time |-> scheduled_time, free |-> free,
                           manifest |-> out.manifest, events |-> out.events]
              /\ tasks' = out.tasks
              /\ net' = out.call
              /\ run' = IF out.outcome = "started"
                        THEN apply_update_start(out.manifest.version,
                                                Get(out.manifest, "files"),
                                                version, installed)
                        ELSE run
    /\ UNCHANGED <<digests, threadVars, backupVars, vf, version, config_file, installed,
                   rollback_flag, rb, cfg, chk>>

\* the scheduler finds the install task due and calls its execute, which
\* enters _apply_update(**kwargs)
ExecuteTask ==
    /\ run.pc = "idle"
    /\ \E n \in Due("_apply_update") :
          /\ tasks[n].executions = <<>>
          /\ run' = apply_update_start(tasks[n].kwargs.version,
                                       tasks[n].kwargs.update_files,
                                       version, installed)
    /\ UNCHANGED <<digests, threadVars, backupVars, net, vf, version, config_file,
                   installed, rollback_flag, rb, serviceVars>>

\* _apply_update has returned to the execute that called it
TaskFinish ==
    /\ run.pc = "done"
    /\ \E n \in DOMAIN tasks :
          /\ tasks[n].callback = "_apply_update"
          /\ tasks[n].executions = <<>>
          /\ tasks' = [tasks EXCEPT ![n] = execute(@, Instant(now), FALSE)]
    /\ UNCHANGED <<digests, threadVars, backupVars, net, vf, version, config_file,
                   installed, rollback_flag, run, rb, cfg, chk, sched>>

NextDaemon ==
    \/ Sleep
    \/ CheckForUpdates
    \/ ScheduleUpdate
    \/ ExecuteTask
    \/ TaskFinish
    \/ ApplyBackup
    \/ ApplyDownload
    \/ ApplyVerify
    \/ ApplyCommit
    \/ PrepareRollback
    \/ HandleConfirmation

SpecDaemon == InitDaemon /\ [][NextDaemon]_vars


\* ------------------------------------------------ backup store: round trip

\* what a location can hold after somebody changed it: each installed file
\* as it was, with other bytes, or gone; the configuration file with either
\* version, or gone
FileStates == {FileOf(BytesAB), FileOf(BytesA), NoFile}
ConfigStates == {V100, V110, Absent}

\* a backup manager with an empty backup directory at instant 0
InitRestore ==
    /\ now = 0
    /\ backup_dir = {}
    /\ retention = backup_retention_count
    /\ bk = NoCall
    /\ written = {}
    /\ creates = 0
    /\ net = NewCall("none", FALSE)
    /\ vf = NoVerify
    /\ DaemonIdle

\* a file of /opt/robot-ai is modified, added or deleted
ModifyFile ==
    /\ \E d \in Destinations, f \in FileStates :
          /\ installed[d] # f
          /\ installed' = [installed EXCEPT ![d] = f]
    /\ UNCHANGED <<digests, threadVars, backupVars, net, vf, version, config_file,
                   rollback_flag, run, rb, serviceVars>>

\* the file /etc/ota_config.json is modified or deleted, or written anew
\* where nothing is
ModifyConfig ==
    /\ config_file \in ConfigStates
    /\ \E c \in ConfigStates :
          /\ config_file # c
          /\ config_file' = c
    /\ UNCHANGED <<digests, threadVars, backupVars, net, vf, version, installed,
                   rollback_flag, run, rb, serviceVars>>

\* the one call create_backup("1.0.0") of a round trip
RestoreCreate ==
    /\ creates = 0
    /\ \E env \in BackupEnvs :
         \E res \in create_backup(backup_dir, V100, DeviceId, now, retention, env,
                                   config_file, installed) :
            /\ backup_dir' = res.dir
            /\ bk' = [op |-> "create", ok |-> res.ok, name |-> res.name,
                      atPrune |-> res.atPrune, listing |-> <<>>]
            /\ written' = IF res.atPrune = backup_dir /\ ~res.ok
                          THEN written
                          ELSE written \cup {[name |-> res.name, version |-> V100,
                                              t |-> now, config |-> config_file,
                                              files |-> installed]}
    /\ creates' = creates + 1
    /\ UNCHANGED <<digests, threadVars, now, retention, net, vf, daemonVars>>

\* a call restore_backup(path) for one of the archives of the directory
BkRestore ==
    /\ \E f \in backup_dir, rsync \in RestoreOutcomes :
          LET res == restore_backup(backup_dir, f.name, config_file, installed,
                                    rsync)
          IN  /\ bk' = [op |-> "restore", ok |-> res.ok, name |-> f.name,
                        atPrune |-> {}, listing |-> <<>>]
              /\ config_file' = res.config
              /\ installed' = res.files
    /\ UNCHANGED <<digests, threadVars, now, backup_dir, retention, written, creates, net,
                   vf, version, rollback_flag, run, rb, serviceVars>>

NextRestore == RestoreCreate \/ ModifyFile \/ ModifyConfig \/ BkRestore

SpecRestore == InitRestore /\ [][NextRestore]_vars

\* the last call was a restore_backup that returned success
Restored == bk.op = "restore" /\ bk.ok

\* C20: for any configured location captured in a backup: after
\* create_backup, any later modification, addition or deletion of files in
\* that location, and a successful restore_backup of that archive, the
\* location's contents equal its contents at backup time (the files of
\* /opt/robot-ai; the file /etc/ota_config.json when there was one).
C20_RestoreRoundTrip ==
    Restored =>
        \E w \in written :
            /\ w.name = bk.name
            /\ installed = w.files
            /\ w.config # Absent => config_file = w.config

\* ---------------------------------------------- backup store: exclusions

\* a backup manager with an empty backup directory at instant 0; /opt/robot-ai
\* holds the installed files and a log file
InitExclude ==
    /\ now = 0
    /\ backup_dir = {}
    /\ retention = backup_retention_count
    /\ bk = NoCall
    /\ written = {}
    /\ creates = 0
    /\ net = NewCall("none", FALSE)
    /\ vf = NoVerify
    /\ version = V100
    /\ config_file = V100
    /\ installed = [d \in Destinations \cup {LogFile} |->
                       IF d = LogFile THEN FileOf(BytesA) ELSE FileOf(BytesAB)]
    /\ rollback_flag = FALSE
    /\ run = NoRun
    /\ rb = NoRollback
    /\ ServicesIdle
    /\ digests = NoDigests

NextExclude == Tick \/ RestoreCreate \/ ModifyFile \/ BkRestore

SpecExclude == InitExclude /\ [][NextExclude]_vars

\* C37: restore_backup deletes nothing that the backup could not put back: a
\* file under /opt/robot-ai that matches the exclusion filter of the backup,
\* and was therefore not archived, is still there after a successful restore.
C37_RestoreKeepsExcluded ==
    (bk.op = "restore" /\ bk.ok) =>
        /\ LogFile \in DOMAIN installed
        /\ installed[LogFile] = FileOf(BytesA)

\* ------------------------------------------------- task scheduler: behaviour

TestTask == <<"test", "_", "task">>

\* a scheduler without tasks at instant 0
InitTask ==
    /\ now = 0
    /\ backup_dir = {}
    /\ retention = backup_retention_count
    /\ bk = NoCall
    /\ written = {}
    /\ creates = 0
    /\ net = NewCall("none", FALSE)
    /\ vf = NoVerify
    /\ DaemonIdle

\* add_task(Task("test_task", callback, schedule_time)), with any of the
\* schedule times, a malformed one, or none
TaskAdd ==
    /\ tasks = NoTasks
    /\ \E schedule_time \in ScheduleTimes \cup BadScheduleTimes \cup {None} :
          tasks' = add_task(tasks, Task(TestTask, "callback", schedule_time,
                                        NoManifest, Instant(now)))
    /\ UNCHANGED <<digests, threadVars, backupVars, net, vf, version, config_file,
                   installed, rollback_flag, run, rb, cfg, chk, sched>>

\* task.execute(), with a callback that returns or raises
TaskExecute ==
    /\ \E n \in DOMAIN tasks, raised \in BOOLEAN :
          /\ Len(tasks[n].executions) < MaxExecutions
          /\ tasks' = [tasks EXCEPT ![n] = execute(@, Instant(now), raised)]
    /\ UNCHANGED <<digests, threadVars, backupVars, net, vf, version, config_file,
                   installed, rollback_flag, run, rb, cfg, chk, sched>>

\* one turn of the loop of _run_scheduler: a due task is executed
SchedulerRun ==
    /\ \E n \in DOMAIN tasks, raised \in BOOLEAN :
          /\ is_due(tasks[n], Instant(now))
          /\ Len(tasks[n].executions) < MaxExecutions
          /\ tasks' = [tasks EXCEPT ![n] = execute(@, Instant(now), raised)]
    /\ UNCHANGED <<digests, threadVars, backupVars, net, vf, version, config_file,
                   installed, rollback_flag, run, rb, cfg, chk, sched>>

NextTask == Tick \/ TaskAdd \/ TaskExecute \/ SchedulerRun

SpecTask == InitTask /\ [][NextTask]_vars

\* ---------------------------------------------------- task scheduler: claims

\* the instant at which the next execution of a task was last computed: its
\* last execution, or its construction
ComputedAt(task) ==
    IF task.executions = <<>> THEN task.created
    ELSE task.executions[Len(task.executions)].at

\* HH:MM of the day of the instant dt
Today(schedule_time, dt) ==
    replace(dt, int(<<schedule_time[1]>>), int(<<schedule_time[3]>>))

\* C18: for every valid HH:MM schedule_time and every computation instant
\* now, the computed next_execution is strictly later than now and at most 24
\* hours later: it is HH:MM today when that is after now, and HH:MM tomorrow
\* when HH:MM today is at or before now.
C18_NextExecutionWithinADay ==
    \A n \in DOMAIN tasks :
        tasks[n].schedule_time \in ScheduleTimes =>
            LET at    == ComputedAt(tasks[n])
                today == Today(tasks[n].schedule_time, at)
            IN  /\ tasks[n].next_execution # None
                /\ tasks[n].next_execution[1] > at
                /\ tasks[n].next_execution[1] <= at + 24 * 3600
                /\ today > at => tasks[n].next_execution[1] = today
                /\ today <= at =>
                      tasks[n].next_execution[1] = today + 24 * 3600

\* C18 witness: a task for 10:30 was computed at 10:30:00 sharp
C18_Witness ==
    \E n \in DOMAIN tasks :
        /\ tasks[n].schedule_time = HHMM("10", "30")
        /\ ComputedAt(tasks[n]) = 10 * 3600 + 30 * 60
        /\ tasks[n].next_execution = Some(34 * 3600 + 30 * 60)

\* C18 witness: a task for 10:31 was executed at 10:30:01
C18_WitnessToday ==
    \E n \in DOMAIN tasks :
        /\ tasks[n].schedule_time = HHMM("10", "31")
        /\ tasks[n].executions # <<>>
        /\ ComputedAt(tasks[n]) = 10 * 3600 + 30 * 60 + 1
        /\ tasks[n].next_execution = Some(10 * 3600 + 31 * 60)

\* C19: Task.execute never propagates an exception of the callback: it
\* returns true when the callback returns and false when it raises, and in
\* both cases it stamps last_executed and recomputes next_execution from
\* schedule_time, so a failing task keeps its recurrence exactly as a
\* succeeding one does.
C19_ExecuteAlwaysStamps ==
    \A n \in DOMAIN tasks :
        /\ \A k \in 1..Len(tasks[n].executions) :
              tasks[n].executions[k].returned = ~tasks[n].executions[k].raised
        /\ tasks[n].executions # <<>> =>
              LET at == ComputedAt(tasks[n]) IN
              /\ tasks[n].last_executed = Some(at)
              /\ tasks[n].schedule_time \in ScheduleTimes =>
                    /\ tasks[n].next_execution # None
                    /\ tasks[n].next_execution[1] > at
                    /\ tasks[n].next_execution[1] \in
                          {Today(tasks[n].schedule_time, at),
                           Today(tasks[n].schedule_time, at) + 24 * 3600}
              /\ tasks[n].schedule_time = None =>
                    tasks[n].next_execution = Some(at)

\* C19 witness: a due task for 10:30 was executed twice on the second day;
\* the callback returned the first time and raised the second
C19_Witness ==
    \E n \in DOMAIN tasks :
        /\ tasks[n].schedule_time = HHMM("10", "30")
        /\ Len(tasks[n].executions) = 2
        /\ ~tasks[n].executions[1].raised
        /\ tasks[n].executions[2].raised
        /\ ~tasks[n].executions[2].returned
        /\ tasks[n].last_executed = Some(tasks[n].executions[2].at)
        /\ tasks[n].next_execution[1] > tasks[n].executions[2].at

\* -------------------------------------------- orchestrator: checks alone

\* what an earlier check of an earlier process left in the configuration when
\* it found version 1.1.0
FoundBefore ==
    [last_check_time |-> isoformat(0), update_available |-> TRUE,
     available_version |-> V110]

\* a daemon constructed at instant 0 that has version 1.0.0 or 1.1.0 installed
InitCheck ==
    /\ digests = NoDigests
    /\ now \in Clocks
    /\ retention = backup_retention_count
    /\ bk = NoCall
    /\ creates = 0
    /\ backup_dir = {ForeignArchive} /\ written = {}
    /\ net = NewCall("none", FALSE)
    /\ vf = NoVerify
    /\ version \in {V100, V110}
    /\ config_file = version
    /\ installed = OldFiles
    /\ rollback_flag = FALSE
    /\ run = NoRun
    /\ rb = NoRollback
    /\ cfg \in {NoCheckYet, FoundBefore}
    /\ chk = NoCheck
    /\ tasks = StartupTasks(Instant(0))
    /\ sched = NoRequest
    /\ ThreadsIdle

NextCheck == CheckForUpdates

SpecCheck == InitCheck /\ [][NextCheck]_vars

\* ---------------------------------------------------- orchestrator: claims

\* the positions of the events of one kind in the log of the run
EventsOf(e) == {k \in 1..Len(run.events) : run.events[k].e = e}
BackupReturned(ok) ==
    \E k \in EventsOf("backup") : run.events[k].ok = ok

\* neither the files nor the version differ from what the run found
Untouched == installed = run.at_start /\ version = run.current_version

\* C1: in an install run no update file is downloaded or written to its
\* destination before create_backup has returned success, and when
\* create_backup returns failure the run ends with no file downloaded or
\* written and the installed version unchanged.
C1_BackupBeforeDownload ==
    /\ \A k \in EventsOf("download") :
          \E j \in EventsOf("backup") : j < k /\ run.events[j].ok
    /\ (~rb.executed /\ installed # run.at_start) => BackupReturned(TRUE)
    /\ BackupReturned(FALSE) =>
          /\ run.pc = "done"
          /\ EventsOf("download") = {}
          /\ ~rb.executed => Untouched

\* C1 witness: a run with files to install has ended on a failed backup that
\* left a partial archive behind
C1_Witness ==
    /\ run.pc = "done"
    /\ BackupReturned(FALSE)
    /\ Len(run.update_files) = MaxFiles
    /\ \E f \in backup_dir : f.name = bk.name /\ ~f.readable

\* every entry was downloaded and, where it has a checksum, verified
AllInstalled ==
    \A i \in 1..Len(run.update_files) :
        /\ \E k \in EventsOf("download") : run.events[k].i = i /\ run.events[k].ok
        /\ Get(run.update_files[i], "checksum") # None =>
              \E k \in EventsOf("verify") : run.events[k].i = i /\ run.events[k].ok

\* C2: a run sets the installed version to the target version if and only if
\* the backup succeeded and every declared file was downloaded and, where a
\* checksum is declared, verified; then the version is committed before
\* success is reported upstream and exactly one success result notification
\* is emitted; in every other run the installed version keeps its value.
C2_CommitIffAllVerified ==
    (run.pc = "done" /\ ~rb.executed) =>
        LET good == BackupReturned(TRUE) /\ AllInstalled IN
        /\ (version = run.version) <=> good
        /\ good =>
              /\ \E c \in EventsOf("commit"), r \in EventsOf("report") :
                    c < r /\ run.events[c].ok /\ run.events[r].ok
              /\ Cardinality(EventsOf("result")) = 1
              /\ \A k \in EventsOf("result") : run.events[k].ok
        /\ ~good => version = run.current_version

\* the checksum an entry declares is not the digest of the bytes the server
\* sends
Mismatch(file_info) ==
    /\ Get(file_info, "checksum") # None
    /\ lower(Get(file_info, "checksum")) # KnownDigest(Served)

\* C3: when the checksum declared for file i does not match the downloaded
\* bytes the run aborts at file i: file i is not downloaded again, no file
\* after i is downloaded or verified, the installed version is unchanged, and
\* exactly one failure result notification is emitted.
C3_MismatchAborts ==
    \A k \in EventsOf("download") :
        (/\ run.events[k].ok
         /\ Mismatch(run.update_files[run.events[k].i])
         /\ run.pc # "verify") =>
            /\ run.pc = "done"
            /\ Len(run.events) = k + 2
            /\ run.events[k + 1] = Event("verify", run.events[k].i, FALSE)
            /\ run.events[k + 2] = Event("result", 0, FALSE)
            /\ ~rb.executed => version = run.current_version

\* C3 witness: the first of two files failed its verification and the run has
\* ended
C3_Witness ==
    /\ run.pc = "done"
    /\ run.update_files = <<FileBad, FileGood>>
    /\ \E k \in EventsOf("verify") : run.events[k].i = 1 /\ ~run.events[k].ok
    /\ installed["/opt/robot-ai/lib.bin"] = FileOf(Served)

\* the run ended with the target version installed and reported
Installed ==
    /\ run.pc = "done"
    /\ \E k \in EventsOf("result") : run.events[k].ok

RestoresOf(log) == {k \in 1..Len(log) : log[k].e = "restore"}

\* C11: a failed install never triggers a restore: restore_backup is called
\* only in the step that handles a confirmation while the rollback flag is
\* there, the flag is put there only by the rollback command, and no step of
\* an install run, of an install request or of an update check calls it.
C11_RestoreOnlyOnConfirmedRollback ==
    [][/\ RestoresOf(rb'.events) # RestoresOf(rb.events) =>
             /\ rollback_flag
             /\ ~rb.executed /\ rb'.executed
             /\ run' = run /\ chk' = chk /\ sched' = sched /\ tasks' = tasks
       /\ (rollback_flag' /\ ~rollback_flag) => (~rb.prepared /\ rb'.prepared)
       /\ RestoresOf(run'.events) = {}
       /\ RestoresOf(sched'.events) = {}
       /\ RestoresOf(chk'.events) = {}]_vars

\* C11 witness: after a check, an install run failed past its backup and left
\* changed files; a confirmation was handled and nothing was restored
C11_Witness ==
    /\ chk.called
    /\ run.pc = "done"
    /\ BackupReturned(TRUE)
    /\ \E k \in EventsOf("result") : ~run.events[k].ok
    /\ installed # run.at_start
    /\ rb.executed
    /\ RestoresOf(rb.events) = {}

\* the run has ended on a failure result
Aborted ==
    /\ run.pc = "done"
    /\ \E k \in EventsOf("result") : ~run.events[k].ok

\* C12: every abort of an install run - backup failure, download failure
\* after the retries, checksum mismatch, or an unexpected exception - reports
\* the failure upstream through report_update_status with status "failed".
C12_AbortsReportFailure ==
    Aborted => \E k \in EventsOf("report") : ~run.events[k].ok

\* the positions of the result notifications in a log
ResultsOf(log) == {k \in 1..Len(log) : log[k].e = "result"}

\* a confirmation found the rollback flag: _execute_rollback was entered
RollbackExecuted == rb.executed /\ rollback_flag

InstallTasks == {n \in DOMAIN tasks : tasks[n].callback = "_apply_update"}
Needed == SumSizes(Get(sched.manifest, "files")) + 600 * 1048576

\* C15: with declared file sizes summing to S MB, when the free space is below
\* S + 500 + 100 MB a schedule/install request adds no install task, starts no
\* install (no backup, no download) and emits a failure result; an install
\* task is added or an install started only when free space >= S + 500 + 100
\* MB.
C15_DiskSpaceGate ==
    /\ (sched.called /\ sched.outcome # "no_manifest" /\ sched.free < Needed) =>
          /\ sched.outcome = "insufficient"
          /\ InstallTasks = {}
          /\ run = NoRun
          /\ creates = 0
          /\ installed = OldFiles
          /\ sched.events = <<Event("result", 0, FALSE)>>
    /\ (InstallTasks # {} \/ run.pc # "idle") =>
          /\ sched.outcome \in {"scheduled", "started"}
          /\ sched.free >= Needed

\* C15 witness: a request for a file of 1 MB was refused with one byte less
\* than 601 MB free, and time went on with nothing installed
C15_Witness ==
    /\ sched.outcome = "insufficient"
    /\ SumSizes(Get(sched.manifest, "files")) = Mb
    /\ sched.free = Needed - 1
    /\ now = MaxClock
    /\ run = NoRun

\* C15 witness: the install of a file of 1 MB started with exactly 601 MB free
C15_WitnessStarted ==
    /\ sched.outcome = "started"
    /\ sched.free = Needed
    /\ SumSizes(Get(sched.manifest, "files")) = Mb
    /\ run.pc = "done"

\* the check returned the manifest it fetched
CheckSucceeded == chk.called /\ chk.returned = "manifest"

\* what a successful check leaves about the version, and that it notifies an
\* update exactly once when the manifest version is not the installed one
ComparedByEquality ==
    IF chk.manifest.version = chk.version
    THEN /\ ~cfg.update_available
         /\ cfg.available_version = None
         /\ chk.events = <<>>
    ELSE /\ cfg.update_available
         /\ cfg.available_version = chk.manifest.version
         /\ Len(chk.events) = 1
         /\ chk.events[1].e = "update_available"
         /\ chk.events[1].version = chk.manifest.version

\* C16 as stated: a successful check compares the manifest version to the
\* installed version by exact string equality, and the one notification of a
\* different version carries the severity of the manifest.
C16_NotificationCarriesManifestSeverity ==
    CheckSucceeded =>
        /\ ComparedByEquality
        /\ (chk.events # <<>> /\ "severity" \in DOMAIN chk.manifest) =>
              chk.events[1].severity = chk.manifest.severity

\* C16 amended: as stated, but the notification carries the manifest severity
\* when that is critical, security, regular or feature, and regular when the
\* manifest has no severity or another one.
C16_CheckComparesVersions ==
    CheckSucceeded =>
        /\ ComparedByEquality
        /\ chk.events # <<>> =>
              chk.events[1].severity =
                  IF "severity" \in DOMAIN chk.manifest
                  THEN IF chk.manifest.severity \in
                             {"critical", "security", "regular", "feature"}
                       THEN chk.manifest.severity
                       ELSE "regular"
                  ELSE "regular"

\* C16 witness: with 1.0.0 installed and 1.1.0 found before, a check fetched
\* the manifest of the older 0.9.0 and notified it as a security update
C16_Witness ==
    /\ CheckSucceeded
    /\ chk.version = V100
    /\ chk.cfg = FoundBefore
    /\ chk.manifest.version = V090
    /\ chk.events = <<UpdateAvailable(V090, "security")>>

\* C16 witness: the installed version is the manifest's
C16_WitnessEqual ==
    /\ CheckSucceeded
    /\ chk.version = V100
    /\ chk.manifest.version = V100
    /\ chk.cfg = FoundBefore
    /\ cfg.available_version = None

\* C17: a check that fails - network unreachable, or manifest fetch failed -
\* leaves update_available, available_version, last_check_time and the
\* installed version (in memory and in the configuration file) exactly as
\* they were, and emits no notification.
C17_FailedCheckChangesNothing ==
    [][(chk'.called /\ ~chk.called /\ chk'.returned = "None") =>
          /\ cfg' = cfg
          /\ version' = version
          /\ config_file' = config_file
          /\ chk'.events = <<>>]_vars

\* C17 witness: the network was there, the server was not, five times; an
\* update found before is still on record
C17_Witness ==
    /\ chk.called
    /\ chk.returned = "None"
    /\ chk.network
    /\ net.attempt = max_retries
    /\ cfg = FoundBefore

\* C17 witness: check_network failed
C17_WitnessNoNetwork ==
    /\ chk.called
    /\ chk.returned = "None"
    /\ ~chk.network
    /\ cfg = FoundBefore

\* ------------------------------------------ backup store: failures (claims)

\* C21: restore_backup skips, without failing, every configured location the
\* archive does not contain, and its overall result is success exactly when
\* the archive exists and extracts: a failure while clearing or copying one
\* location is logged and never turns the overall result into failure.
C21_RestoreBestEffort ==
    bk.op = "restore" => (bk.ok <=> Extracts(backup_dir, bk.name))

\* C22: if staging any configured source location fails (a failed file copy
\* or a non-zero exit of the directory copy) or writing the archive fails,
\* create_backup returns failure: the archive of a successful create_backup
\* holds every location as it was when the backup was made.
C22_StagingFailureFailsBackup ==
    (bk.op = "create" /\ bk.ok) =>
        \E f \in bk.atPrune, w \in written :
            /\ f.name = bk.name
            /\ w.name = bk.name
            /\ f.snap = [config |-> w.config, files |-> w.files]


\* --------------------------------------- network client: failures (claims)

\* the answer to an attempt of fetch_manifest was a failure of the network: the
\* server was unreachable or timed out, before the response or while the body
\* was read
NetworkFailure(resp) == resp.kind \in {"url_error", "error"}

\* C28: in fetch_manifest every network failure - an unreachable server or a
\* timeout at any point of the request, the reading of the response body
\* included - is retried with backoff until the 5 attempts are exhausted: no
\* network failure ends the call before the 5th attempt.
C28_NetworkFailuresRetried ==
    [][(/\ net'.op = "fetch"
        /\ net'.attempt = net.attempt + 1
        /\ NetworkFailure(net'.heard)
        /\ net'.attempt < max_retries) =>
          /\ ~net'.done
          /\ net'.waits = Append(net.waits, backoff_delay(net'.attempt))]_vars


\* ------------------------------------------------- task scheduler: task set

OtherTask == <<"other", "_", "task">>
TaskNames == {TestTask, OtherTask}

\* scheduler.add_task(Task(name, callback, schedule_time)) for one of two
\* names, taken or not
TaskSetAdd ==
    /\ \E name \in TaskNames,
          schedule_time \in {None, HHMM("03", "00"), HHMM("10", "31")} :
          LET task == Task(name, "callback", schedule_time, NoManifest,
                           Instant(now))
          IN  /\ tasks' = add_task(tasks, task)
              /\ hist' = [hist EXCEPT
                             !.call = [op |-> "add_task", name |-> name,
                                       task |-> task, before |-> tasks]]
    /\ UNCHANGED <<digests, scheduler, threads, voice, backupVars, net, vf, version,
                   config_file, installed, rollback_flag, run, rb, cfg, chk,
                   sched>>

\* scheduler.remove_task(name) for one of the two names, there or not
TaskSetRemove ==
    /\ \E name \in TaskNames :
          /\ tasks' = remove_task(tasks, name)
          /\ hist' = [hist EXCEPT
                         !.call = [op |-> "remove_task", name |-> name,
                                   task |-> <<>>, before |-> tasks]]
    /\ UNCHANGED <<digests, scheduler, threads, voice, backupVars, net, vf, version,
                   config_file, installed, rollback_flag, run, rb, cfg, chk,
                   sched>>

NextTaskSet == Tick \/ TaskSetAdd \/ TaskSetRemove

SpecTaskSet == InitTask /\ [][NextTaskSet]_vars

\* the entries of names other than name are those of before
OthersKept(name, before) ==
    \A n \in (DOMAIN before \cup DOMAIN tasks) \ {name} :
        n \in DOMAIN before /\ n \in DOMAIN tasks /\ tasks[n] = before[n]

\* C27: the task set holds at most one task per name: add_task(t) makes t the
\* task stored under t.name, replacing any earlier task of that name;
\* remove_task(name) removes exactly that entry and is a no-op when the name
\* is absent; neither operation changes any other entry.
C27_TaskSetKeyedByName ==
    LET call == hist.call IN
    /\ call.op = "add_task" =>
          /\ call.name \in DOMAIN tasks
          /\ tasks[call.name] = call.task
          /\ OthersKept(call.name, call.before)
    /\ call.op = "remove_task" =>
          /\ call.name \notin DOMAIN tasks
          /\ OthersKept(call.name, call.before)
          /\ call.name \notin DOMAIN call.before => tasks = call.before

\* C27 witness: add_task has replaced the task of a name while the other name
\* has a task
C27_Witness ==
    /\ hist.call.op = "add_task"
    /\ hist.call.name \in DOMAIN hist.call.before
    /\ hist.call.before[hist.call.name] # hist.call.task
    /\ DOMAIN tasks = TaskNames

\* C27 witness: remove_task of a name that has no task, beside another task
C27_WitnessAbsent ==
    /\ hist.call.op = "remove_task"
    /\ hist.call.name \notin DOMAIN hist.call.before
    /\ hist.call.before # NoTasks


\* ------------------------------------------- execution contexts: threads

\* a bag of one
One(x) == SetToBag({x})

\* the names of the tasks of the daemon, in the order of their insertion into
\* TaskScheduler.tasks, which is the order list(self.tasks.items()) gives
UpdateCheckTask == <<"update", "_", "check", "_", "0300">>
VoiceCheckTask == <<"voice", "_", "command", "_", "check">>
InstallTask == update_install_name(V110)
TaskOrder ==
    <<UpdateCheckTask, VoiceCheckTask, InstallTask, TestTask, OtherTask>>
items(ts) == SelectSeq(TaskOrder, LAMBDA n : n \in DOMAIN ts)

\* a thread that runs a callback: the context that started it (a thread the
\* scheduler fired for a task, the main loop of the daemon, a handler thread
\* of the control socket), the call it is about to make, and the archive path
\* it holds
Thread(context, task, pc, arg) ==
    [context |-> context, task |-> task, pc |-> pc, arg |-> arg]

\* the first call a callback makes
entry(callback) ==
    CASE callback = "check_for_updates" -> "fetch_manifest"
      [] callback = "_apply_update" -> "create_backup"
      [] callback = "check_voice_commands" -> "command"
      [] OTHER -> "callback"

\* the Task object of a name a snapshot or a thread holds
object(n) == IF n \in DOMAIN tasks THEN tasks[n] ELSE scheduler.orphans[n]

\* the threads in flight that are about to make the call pc
At(pc) == {th \in BagToSet(threads) : th.pc = pc}

\* the threads in flight that the scheduler fired, and those of one task
Fired == {th \in BagToSet(threads) : th.context = "task"}
InFlight(n) == {th \in Fired : th.task = n}
RECURSIVE Sum(_, _)
Sum(S, B) ==
    IF S = {} THEN 0
    ELSE LET x == CHOOSE x \in S : TRUE
         IN  CopiesIn(x, B) + Sum(S \ {x}, B)
Executions(n, B) ==
    Sum({th \in BagToSet(B) : th.context = "task" /\ th.task = n}, B)

\* a step that launches an execution of task n
Launch(n) == Executions(n, threads') = Executions(n, threads) + 1

\* a launch that waits its turn: nothing is started while any execution is
\* in flight
start_if_idle(ths, th) ==
    IF BagToSet(ths) = {} THEN ths (+) One(th) ELSE ths

\* a launch that leaves a task alone while an execution of it is in flight
start_unless_in_flight(ths, th) ==
    IF Executions(th.task, ths) > 0 THEN ths ELSE ths (+) One(th)

\* threading.Thread(target=task.execute).start()
start(ths, th) == ths (+) One(th)

\* the loop after the for statement went over an entry: at the next entry, or
\* asleep before the next test of self.running
LoopAt(snapshot) ==
    [pc |-> IF snapshot = <<>> THEN "poll" ELSE "iterate",
     snapshot |-> snapshot]

\* an execute after which a task without schedule time is spent
stamped_one_shot(ts, th, dt) ==
    IF th.context = "task" /\ th.task \in DOMAIN ts
    THEN [ts EXCEPT ![th.task] =
             [execute(@, dt, FALSE) EXCEPT
                 !.executions = <<Execution(dt, FALSE, TRUE)>>,
                 !.next_execution =
                     IF ts[th.task].schedule_time = None THEN None ELSE @]]
    ELSE ts

\* the tail of Task.execute in the objects ts: the task of a thread the
\* scheduler fired is stamped (of the history of its executions the last one
\* is kept)
stamped(ts, th, dt) ==
    IF th.context = "task" /\ th.task \in DOMAIN ts
    THEN [ts EXCEPT ![th.task] =
             [execute(@, dt, FALSE) EXCEPT
                 !.executions = <<Execution(dt, FALSE, TRUE)>>]]
    ELSE ts

\* an end of a callback after which the task is spent: it leaves the task set
Ends_one_shot(th, ts, os) ==
    /\ threads' = threads (-) One(th)
    /\ tasks' = IF th.context = "task" THEN remove_task(ts, th.task) ELSE ts
    /\ scheduler' =
          [scheduler EXCEPT
              !.orphans =
                  stamped([n \in DOMAIN os \cup
                                  (IF th.context = "task" THEN {th.task}
                                   ELSE {}) |-> object(n)],
                          th, Instant(now))]

\* the callback of thread th returns, leaving the task set ts and the orphans
\* os: the thread ends
Ends(th, ts, os) ==
    /\ threads' = threads (-) One(th)
    /\ tasks' = stamped(ts, th, Instant(now))
    /\ scheduler' = [scheduler EXCEPT !.orphans = stamped(os, th, Instant(now))]

\* thread th goes on to the call pc, holding arg
Goes(th, pc, arg) ==
    /\ threads' = (threads (-) One(th)) (+) One([th EXCEPT !.pc = pc,
                                                          !.arg = arg])
    /\ UNCHANGED <<tasks, scheduler>>

\* the call thread th makes is recorded if th executes a task that was
\* cancelled before any launch
Did(th) ==
    IF th.context = "task" /\ th.task \in hist.cancelled
    THEN [hist EXCEPT !.effects = @ \cup {<<th.task, th.pc>>}]
    ELSE hist

\* the manifest the server holds while the daemon runs, and the free space
InstallManifest ==
    WithSeverity(Manifest(V110, <<Sized(FileGood, Mb)>>), "regular")
FreeEnough == (backup_size_mb + buffer_mb + 1) * Mb

\* what the thread actions leave alone
restVars ==
    <<digests, now, retention, bk, written, creates, net, vf, rollback_flag,
      run, rb, chk>>

\* TaskScheduler.start: nothing while running, else a new polling loop
SchedulerStart ==
    /\ hist.calls < MaxEvents
    /\ hist' = [hist EXCEPT !.calls = @ + 1]
    /\ scheduler' = IF scheduler.running THEN scheduler
                    ELSE [scheduler EXCEPT
                             !.running = TRUE, !.thread = TRUE,
                             !.loops = @ (+) One(LoopAt(<<>>))]
    /\ UNCHANGED <<restVars, backup_dir, version, config_file, installed, cfg,
                   sched, tasks, threads, voice>>

\* TaskScheduler.stop: the join gives up after 5 seconds, whether or not the
\* loop has ended by then
SchedulerStop ==
    /\ hist.calls < MaxEvents
    /\ hist' = [hist EXCEPT !.calls = @ + 1]
    /\ scheduler' = [scheduler EXCEPT !.running = FALSE, !.thread = FALSE]
    /\ UNCHANGED <<restVars, backup_dir, version, config_file, installed, cfg,
                   sched, tasks, threads, voice>>

\* _run_scheduler, a loop that is asleep wakes: while self.running it takes
\* list(self.tasks.items()), else it ends
LoopPoll ==
    /\ \E l \in BagToSet(scheduler.loops) :
          /\ l.pc = "poll"
          /\ scheduler' =
                [scheduler EXCEPT
                    !.loops = IF scheduler.running
                              THEN (@ (-) One(l)) (+) One(LoopAt(items(tasks)))
                              ELSE @ (-) One(l)]
    /\ UNCHANGED <<restVars, backup_dir, version, config_file, installed, cfg,
                   sched, tasks, threads, voice, hist>>

\* _run_scheduler, the body of the for statement: a task that is due is
\* executed in a thread of its own
LoopCheck ==
    /\ \E l \in BagToSet(scheduler.loops) :
          /\ l.pc = "iterate"
          /\ LET n == Head(l.snapshot)
                 task == object(n)
             IN  IF is_due(task, Instant(now))
                 THEN /\ Sum(Fired, threads) < MaxThreads
                      /\ threads' = start(threads,
                                          Thread("task", n,
                                                 entry(task.callback), None))
                      /\ hist' = [hist EXCEPT
                                     !.launched = @ \cup {n},
                                     !.since_block =
                                         IF At("blocked") = {} THEN @
                                         ELSE @ \cup {n}]
                 ELSE UNCHANGED <<threads, hist>>
          /\ scheduler' =
                [scheduler EXCEPT
                    !.loops = (@ (-) One(l)) (+) One(LoopAt(Tail(l.snapshot)))]
    /\ UNCHANGED <<restVars, backup_dir, version, config_file, installed, cfg,
                   sched, tasks, voice>>


\* the commands process_command tells apart ("rollback" but notifies)
Commands == {"install tonight", "install now", "cancel update", "confirm"}

\* the user speaks a command, each one at most once: the voice interface writes
\* ota_voice_command.txt
Say ==
    /\ voice = None
    /\ Cardinality(hist.said) < MaxEvents
    /\ \E cmd \in Commands \ hist.said :
          /\ voice' = Some(cmd)
          /\ hist' = [hist EXCEPT !.said = @ \cup {cmd}]
    /\ UNCHANGED <<restVars, backup_dir, version, config_file, installed, cfg,
                   sched, tasks, scheduler, threads>>

\* the main loop of the daemon calls check_voice_commands (a call that
\* finds no command file does nothing)
MainLoop ==
    /\ voice # None
    /\ ~\E th \in BagToSet(threads) : th.context = "main"
    /\ threads' = threads (+) One(Thread("main", None, "command", None))
    /\ UNCHANGED <<restVars, backup_dir, version, config_file, installed, cfg,
                   sched, tasks, scheduler, voice, hist>>

\* a client of the control socket sends check_now, once: its handler thread
\* calls check_for_updates
GuiCommand ==
    /\ Cardinality(hist.said) < MaxEvents
    /\ "check_now" \notin hist.said
    /\ threads' = threads (+) One(Thread("gui", None, "fetch_manifest", None))
    /\ hist' = [hist EXCEPT !.said = @ \cup {"check_now"}]
    /\ UNCHANGED <<restVars, backup_dir, version, config_file, installed, cfg,
                   sched, tasks, scheduler, voice>>

\* check_for_updates up to the return of fetch_manifest: without a manifest
\* it returns
FetchManifest ==
    /\ \E th \in BagToSet(threads), ok \in BOOLEAN :
          /\ th.pc = "fetch_manifest"
          /\ IF ok THEN Goes(th, "set_update_available", None)
             ELSE Ends(th, tasks, scheduler.orphans)
    /\ UNCHANGED <<restVars, backup_dir, version, config_file, installed, cfg,
                   sched, voice, hist>>

\* check_for_updates, the comparison of the manifest version with the
\* installed one and the assignments to last_check_time and update_available
SetUpdateAvailable ==
    /\ \E th \in BagToSet(threads) :
          /\ th.pc = "set_update_available"
          /\ LET out == check_for_updates(version, cfg, TRUE,
                                          <<Body(InstallManifest)>>, now,
                                          Len(ConfigFields)).cfg
             IN  /\ cfg' = [cfg EXCEPT
                               !.last_check_time = out.last_check_time,
                               !.update_available = out.update_available]
                 /\ Goes(th, "set_available_version", out.available_version)
          /\ hist' = Did(th)
    /\ UNCHANGED <<restVars, backup_dir, version, config_file, installed,
                   sched, voice>>

\* check_for_updates, the assignment to available_version in the branch the
\* comparison chose
SetAvailableVersion ==
    /\ \E th \in BagToSet(threads) :
          /\ th.pc = "set_available_version"
          /\ cfg' = [cfg EXCEPT !.available_version = th.arg]
          /\ hist' = Did(th)
          /\ Ends(th, tasks, scheduler.orphans)
    /\ UNCHANGED <<restVars, backup_dir, version, config_file, installed,
                   sched, voice>>

\* the names _cancel_update removes
IsInstallName(n) ==
    /\ Len(n) >= 4
    /\ SubSeq(n, 1, 4) = <<"update", "_", "install", "_">>

\* OTADaemon._cancel_update: remove_task for every update_install_ task
RECURSIVE remove_tasks(_, _)
remove_tasks(ts, names) ==
    IF names = {} THEN ts
    ELSE LET n == CHOOSE n \in names : TRUE
         IN  remove_tasks(remove_task(ts, n), names \ {n})
_cancel_update(ts) ==
    remove_tasks(ts, {n \in DOMAIN ts : IsInstallName(n)})

\* check_voice_commands: check_for_voice_command reads the command file and
\* deletes it; then "install tonight", "install now", "cancel update", or a
\* confirmation, which looks for the rollback flag
VoiceCommand ==
    /\ \E th \in BagToSet(threads) :
          /\ th.pc = "command"
          /\ voice' = None
          /\ IF voice = None
             THEN /\ Ends(th, tasks, scheduler.orphans)
                  /\ UNCHANGED <<sched, hist>>
             ELSE IF voice = Some("install tonight")
             THEN LET out == _schedule_update(HHMM("03", "00"),
                                              <<Body(InstallManifest)>>,
                                              FreeEnough, tasks, Instant(now))
                  IN  /\ sched' = [called |-> TRUE, outcome |-> out.outcome,
                                   scheduled_time |-> HHMM("03", "00"),
                                   free |-> FreeEnough,
                                   manifest |-> out.manifest,
                                   events |-> out.events]
                      /\ Ends(th, out.tasks, scheduler.orphans)
                      /\ UNCHANGED hist
             ELSE IF voice = Some("install now")
             THEN /\ Goes(th, "create_backup", None)
                  /\ UNCHANGED <<sched, hist>>
             ELSE IF voice = Some("cancel update")
             THEN LET left == _cancel_update(tasks)
                      gone == DOMAIN tasks \ DOMAIN left
                  IN  /\ Ends(th, left,
                              [n \in DOMAIN scheduler.orphans \cup gone |->
                                  object(n)])
                      /\ hist' = [hist EXCEPT
                                     !.cancelled = @ \cup (gone \ hist.launched)]
                      /\ UNCHANGED sched
             ELSE /\ \E latest \in get_latest_backup(backup_dir, DeviceId) :
                        IF rollback_flag /\ latest # NoPath
                        THEN Goes(th, "restore_backup", latest)
                        ELSE Ends(th, tasks, scheduler.orphans)
                  /\ UNCHANGED <<sched, hist>>
    /\ UNCHANGED <<restVars, backup_dir, version, config_file, installed, cfg>>

\* _apply_update, create_backup up to the verification of the archive: a
\* failure ends the run
CreateBackup ==
    /\ \E th \in BagToSet(threads),
          env \in {e \in BackupEnvs : e.write = "complete" /\ e.stage # "rsync_nonzero"} :
         \E res \in create_backup(backup_dir, version, DeviceId, now, retention,
                                   env, config_file, installed) :
            /\ th.pc = "create_backup"
            /\ backup_dir' = res.atPrune
            /\ hist' = Did(th)
            /\ IF res.ok THEN Goes(th, "_cleanup_old_backups", None)
               ELSE Ends(th, tasks, scheduler.orphans)
    /\ UNCHANGED <<restVars, version, config_file, installed, cfg, sched,
                   voice>>

\* create_backup, the pruning of the archives beyond the retention count
CleanupOldBackups ==
    /\ \E th \in BagToSet(threads),
          order \in SortedBackups(backup_dir, DeviceId) :
          /\ th.pc = "_cleanup_old_backups"
          /\ backup_dir' = _cleanup_old_backups(backup_dir, order, retention)
          /\ hist' = Did(th)
          /\ Goes(th, "download", None)
    /\ UNCHANGED <<restVars, version, config_file, installed, cfg, sched,
                   voice>>

\* _apply_update, the downloads, the verification and apply_updates, which
\* puts the files at their destinations: a failed download ends the run
Download ==
    /\ \E th \in BagToSet(threads), ok \in BOOLEAN :
          /\ th.pc = "download"
          /\ hist' = Did(th)
          /\ IF ok
             THEN /\ installed' = [installed EXCEPT
                                      ![FileGood.destination] = FileOf(Served)]
                  /\ Goes(th, "set_version", None)
             ELSE /\ UNCHANGED installed
                  /\ Ends(th, tasks, scheduler.orphans)
    /\ UNCHANGED <<restVars, backup_dir, version, config_file, cfg, sched,
                   voice>>

\* a callback that never returns, one at most: a test callback, or a download
\* whose server stops answering while the body is read
Block ==
    /\ \E th \in BagToSet(threads) :
          /\ th.pc \in {"download", "callback"}
          /\ At("blocked") = {}
          /\ Goes(th, "blocked", None)
    /\ UNCHANGED <<restVars, backup_dir, version, config_file, installed, cfg,
                   sched, voice, hist>>

\* _apply_update, config_manager.version = version
SetVersion ==
    /\ \E th \in BagToSet(threads) :
          /\ th.pc = "set_version"
          /\ version' = InstallManifest.version
          /\ config_file' = InstallManifest.version
          /\ hist' = Did(th)
          /\ Ends(th, tasks, scheduler.orphans)
    /\ UNCHANGED <<restVars, backup_dir, installed, cfg, sched, voice>>

\* _execute_rollback, restore_backup of the path get_latest_backup gave, and
\* the version of the first listed backup, if one is listed
RestoreBackup ==
    /\ \E th \in BagToSet(threads),
          backups \in get_available_backups(backup_dir, DeviceId) :
          /\ th.pc = "restore_backup"
          /\ LET res == restore_backup(backup_dir, th.arg, config_file,
                                       installed, "ok")
                 adopt == res.ok /\ backups # <<>>
             IN  /\ installed' = res.files
                 /\ version' = IF adopt THEN backups[1].version ELSE version
                 /\ config_file' = IF adopt THEN backups[1].version
                                   ELSE res.config
          /\ hist' = Did(th)
          /\ Ends(th, tasks, scheduler.orphans)
    /\ UNCHANGED <<restVars, backup_dir, cfg, sched, voice>>

\* the callback of a task that is none of the daemon's returns
Callback ==
    /\ \E th \in BagToSet(threads) :
          /\ th.pc = "callback"
          /\ Ends(th, tasks, scheduler.orphans)
    /\ UNCHANGED <<restVars, backup_dir, version, config_file, installed, cfg,
                   sched, voice, hist>>

\* time passes
Pass ==
    /\ now < MaxClock
    /\ now' = now + 1
    /\ UNCHANGED <<digests, retention, bk, written, creates, net, vf,
                   rollback_flag, run, rb, chk, backup_dir, version,
                   config_file, installed, cfg, sched, tasks, scheduler,
                   threads, voice, hist>>

\* the daemon at instant 1, started: the scheduler runs its loop; an archive
\* of an earlier run and the flag of a prepared rollback are there
InitThreads ==
    /\ digests = NoDigests
    /\ now = 1
    /\ retention = backup_retention_count
    /\ bk = NoCall
    /\ creates = 0
    /\ backup_dir = {PriorArchive}
    /\ written = {}
    /\ net = NewCall("none", FALSE)
    /\ vf = NoVerify
    /\ version = V100
    /\ config_file = V100
    /\ installed = OldFiles
    /\ rollback_flag = TRUE
    /\ run = NoRun
    /\ rb = NoRollback
    /\ cfg = NoCheckYet
    /\ chk = NoCheck
    /\ tasks = StartupTasks(Instant(1))
    /\ sched = NoRequest
    /\ scheduler = [NotStarted EXCEPT !.running = TRUE, !.thread = TRUE,
                                      !.loops = One(LoopAt(<<>>))]
    /\ threads = EmptyBag
    /\ voice = None
    /\ hist = NoHistory

NextThreads ==
    \/ Pass
    \/ Say
    \/ LoopPoll
    \/ LoopCheck
    \/ MainLoop
    \/ GuiCommand
    \/ FetchManifest
    \/ SetUpdateAvailable
    \/ SetAvailableVersion
    \/ VoiceCommand
    \/ CreateBackup
    \/ CleanupOldBackups
    \/ Download
    \/ Block
    \/ SetVersion
    \/ RestoreBackup

SpecThreads == InitThreads /\ [][NextThreads]_vars


\* ------------------------------------------------ voice commands: polling

\* Path.unlink of the command file: FileNotFoundError when it is not there
unlink(file) == [raised |-> file = None, file |-> None]

\* check_for_voice_command, a poller tests voice_command_file.exists(): no
\* file, and it returns None to check_voice_commands, which returns
VoiceExists ==
    /\ \E th \in BagToSet(threads) :
          /\ th.pc = "command"
          /\ IF voice = None
             THEN Ends(th, tasks, scheduler.orphans)
             ELSE Goes(th, "read", None)
    /\ UNCHANGED <<restVars, backup_dir, version, config_file, installed, cfg,
                   sched, voice, hist>>

\* check_for_voice_command, a poller opens the file and reads the command;
\* open raises when the file is gone, and the handler returns None
VoiceRead ==
    /\ \E th \in BagToSet(threads) :
          /\ th.pc = "read"
          /\ IF voice = None
             THEN Ends(th, tasks, scheduler.orphans)
             ELSE Goes(th, "unlink", voice[1])
    /\ UNCHANGED <<restVars, backup_dir, version, config_file, installed, cfg,
                   sched, voice, hist>>

\* check_for_voice_command, a poller unlinks the file and returns the command
\* it read; unlink raises when the file is gone, and the handler returns None
VoiceUnlink ==
    /\ \E th \in BagToSet(threads) :
          /\ th.pc = "unlink"
          /\ LET res == unlink(voice) IN
             /\ voice' = res.file
             /\ hist' = IF res.raised THEN hist
                        ELSE [hist EXCEPT !.returned = Append(@, th.arg)]
          /\ Ends(th, tasks, scheduler.orphans)
    /\ UNCHANGED <<restVars, backup_dir, version, config_file, installed, cfg,
                   sched>>

\* the daemon started, the main loop and the voice_command_check task both
\* polling the command file
NextVoice ==
    \/ Say
    \/ MainLoop
    \/ LoopPoll
    \/ LoopCheck
    \/ VoiceExists
    \/ VoiceRead
    \/ VoiceUnlink

SpecVoice == InitThreads /\ [][NextVoice]_vars

\* the calls of check_for_voice_command that returned the command cmd
ReturnsOf(cmd) == {k \in 1..Len(hist.returned) : hist.returned[k] = cmd}

\* C38: a voice command written once to the command file is processed at most
\* once although the main loop and the voice_command_check task both poll the
\* file: at most one call of check_for_voice_command returns it.
C38_CommandReturnedAtMostOnce ==
    \A cmd \in Commands : Cardinality(ReturnsOf(cmd)) <= 1

\* while a single command has been written no command is returned twice
C38_OneWrite ==
    Cardinality(hist.said) <= 1 => C38_CommandReturnedAtMostOnce


\* ------------------------------------------ task scheduler: polling loop

\* a scheduler, started, at instant 1, with a task that runs at once and
\* at every poll, and the install task of "install tonight"
InitLoop ==
    /\ digests = NoDigests
    /\ now = 1
    /\ retention = backup_retention_count
    /\ bk = NoCall
    /\ creates = 0
    /\ backup_dir = {}
    /\ written = {}
    /\ net = NewCall("none", FALSE)
    /\ vf = NoVerify
    /\ version = V100
    /\ config_file = V100
    /\ installed = OldFiles
    /\ rollback_flag = FALSE
    /\ run = NoRun
    /\ rb = NoRollback
    /\ cfg = NoCheckYet
    /\ chk = NoCheck
    /\ tasks = schedule_update(
                   add_task(NoTasks, Task(TestTask, "callback", None,
                                          NoManifest, Instant(1))),
                   HHMM("03", "00"), InstallManifest.version,
                   InstallManifest.files, Instant(1))
    /\ sched = NoRequest
    /\ scheduler = [NotStarted EXCEPT !.running = TRUE, !.thread = TRUE,
                                      !.loops = One(LoopAt(<<>>))]
    /\ threads = EmptyBag
    /\ voice = None
    /\ hist = NoHistory

NextLoop ==
    \/ Pass
    \/ SchedulerStart
    \/ SchedulerStop
    \/ LoopPoll
    \/ LoopCheck
    \/ Callback
    \/ Block
    \/ CreateBackup
    \/ CleanupOldBackups
    \/ Download
    \/ SetVersion

SpecLoop == InitLoop /\ [][NextLoop]_vars

\* the loop and the threads it fired are scheduled fairly; a blocked thread
\* has no step to take
SpecLoopFair ==
    /\ SpecLoop
    /\ WF_vars(LoopPoll)
    /\ WF_vars(LoopCheck)
    /\ WF_vars(Callback)
    /\ WF_vars(CreateBackup)
    /\ WF_vars(CleanupOldBackups)
    /\ WF_vars(Download)
    /\ WF_vars(SetVersion)

\* ---------------------------------------- task scheduler: recurring tasks

\* a running scheduler at instant 0 with a task that has no schedule time and
\* a task whose schedule time cannot be parsed
InitRecur ==
    /\ digests = NoDigests
    /\ now = 0
    /\ retention = backup_retention_count
    /\ bk = NoCall
    /\ creates = 0
    /\ backup_dir = {}
    /\ written = {}
    /\ net = NewCall("none", FALSE)
    /\ vf = NoVerify
    /\ version = V100
    /\ config_file = V100
    /\ installed = OldFiles
    /\ rollback_flag = FALSE
    /\ run = NoRun
    /\ rb = NoRollback
    /\ cfg = NoCheckYet
    /\ chk = NoCheck
    /\ \E schedule_time \in BadScheduleTimes :
          tasks = add_task(add_task(NoTasks,
                                    Task(TestTask, "callback", None,
                                         NoManifest, Instant(0))),
                           Task(OtherTask, "callback", schedule_time,
                                NoManifest, Instant(0)))
    /\ sched = NoRequest
    /\ scheduler = [NotStarted EXCEPT !.running = TRUE, !.thread = TRUE,
                                      !.loops = One(LoopAt(<<>>))]
    /\ threads = EmptyBag
    /\ voice = None
    /\ hist = NoHistory

\* remove_task(name) by the owner of the scheduler; the loop may still hold
\* the Task object in the list it goes over
RecurRemove ==
    /\ \E n \in DOMAIN tasks :
          /\ tasks' = remove_task(tasks, n)
          /\ scheduler' = [scheduler EXCEPT
                              !.orphans = [m \in DOMAIN @ \cup {n} |->
                                              object(m)]]
    /\ UNCHANGED <<restVars, backup_dir, version, config_file, installed, cfg,
                   sched, threads, voice, hist>>

NextRecur ==
    \/ Pass
    \/ SchedulerStart
    \/ SchedulerStop
    \/ LoopPoll
    \/ LoopCheck
    \/ Callback
    \/ Block
    \/ RecurRemove

SpecRecur == InitRecur /\ [][NextRecur]_vars

\* the loop and the threads it fired are scheduled fairly
SpecRecurFair ==
    /\ SpecRecur
    /\ WF_vars(LoopPoll)
    /\ WF_vars(LoopCheck)
    /\ WF_vars(Callback)

\* C31: a task without schedule_time is never one-shot: it is due whenever it
\* is in the task set, before and after each of its executions, so under fair
\* scheduling a scheduler that stays running launches it again and again for
\* as long as it stays in the task set; once remove_task has taken it out the
\* launches come to an end.
C31_NeverOneShot ==
    /\ [](\A n \in DOMAIN tasks :
             tasks[n].schedule_time = None => is_due(tasks[n], Instant(now)))
    /\ <>[](scheduler.running /\ TestTask \in DOMAIN tasks)
           => []<><<Launch(TestTask)>>_vars
    /\ <>[](TestTask \notin DOMAIN tasks) => <>[][~Launch(TestTask)]_vars

\* the task without schedule time has been executed, at a later instant than
\* its construction, and an execution of it is in flight again
C31_Witness ==
    /\ TestTask \in DOMAIN tasks
    /\ tasks[TestTask].last_executed # None
    /\ tasks[TestTask].last_executed[1] > tasks[TestTask].created
    /\ Executions(TestTask, threads) > 0

\* what the loop has gone over: the task is at the head of a list a loop holds
Reaches(n) ==
    \E l \in BagToSet(scheduler.loops) :
        l.pc = "iterate" /\ Head(l.snapshot) = n

\* C39: a task whose non-empty schedule_time cannot be parsed as HH:MM has no
\* next_execution and is never due: Task(...) and add_task return with the
\* task in the task set, where it stays until it is removed, and a running
\* scheduler never launches it.
C39_UnparsableNeverDue ==
    /\ \A n \in DOMAIN tasks :
          tasks[n].schedule_time \in BadScheduleTimes =>
              /\ tasks[n].next_execution = None
              /\ ~is_due(tasks[n], Instant(now))
              /\ tasks[n].last_executed = None
    /\ OtherTask \notin hist.launched
    /\ Executions(OtherTask, threads) = 0
    /\ OtherTask \in DOMAIN tasks \/ OtherTask \in DOMAIN scheduler.orphans

\* on the second day the loop of a running scheduler, which has launched the
\* other task, is about to go over the task with the hour no day has
C39_Witness ==
    /\ now = MaxClock
    /\ scheduler.running
    /\ TestTask \in hist.launched
    /\ OtherTask \in DOMAIN tasks
    /\ tasks[OtherTask].schedule_time = HHMM("24", "00")
    /\ Reaches(OtherTask)

\* ------------------------------------------ task scheduler: nightly install

\* the daemon at 10:30:00 of the day after "install tonight" was said at
\* 10:30:00: the install task waits for 03:00 of this day, which has passed
InitNightly ==
    /\ digests = NoDigests
    /\ now = 0
    /\ retention = backup_retention_count
    /\ bk = NoCall
    /\ creates = 0
    /\ backup_dir = {}
    /\ written = {}
    /\ net = NewCall("none", FALSE)
    /\ vf = NoVerify
    /\ version = V100
    /\ config_file = V100
    /\ installed = OldFiles
    /\ rollback_flag = FALSE
    /\ run = NoRun
    /\ rb = NoRollback
    /\ cfg = NoCheckYet
    /\ chk = NoCheck
    /\ tasks = schedule_update(NoTasks, HHMM("03", "00"),
                               InstallManifest.version, InstallManifest.files,
                               Instant(0) - SecondsPerDay)
    /\ sched = NoRequest
    /\ scheduler = [NotStarted EXCEPT !.running = TRUE, !.thread = TRUE,
                                      !.loops = One(LoopAt(<<>>))]
    /\ threads = EmptyBag
    /\ voice = None
    /\ hist = NoHistory

\* "cancel update": _cancel_update removes the install tasks; the loop may
\* still hold their Task objects in the list it goes over
CancelUpdate ==
    /\ LET left == _cancel_update(tasks)
           gone == DOMAIN tasks \ DOMAIN left
       IN  /\ gone # {}
           /\ tasks' = left
           /\ scheduler' = [scheduler EXCEPT
                               !.orphans = [n \in DOMAIN @ \cup gone |->
                                               object(n)]]
           /\ hist' = [hist EXCEPT
                          !.cancelled = @ \cup (gone \ hist.launched)]
    /\ UNCHANGED <<restVars, backup_dir, version, config_file, installed, cfg,
                   sched, threads, voice>>

NextNightly ==
    \/ Pass
    \/ LoopPoll
    \/ LoopCheck
    \/ CreateBackup
    \/ CleanupOldBackups
    \/ Download
    \/ SetVersion
    \/ CancelUpdate

SpecNightly == InitNightly /\ [][NextNightly]_vars

\* HH:MM of schedule_time, the next time it comes after the instant dt
Following(schedule_time, dt) ==
    LET today == Today(schedule_time, dt) IN
    IF today <= dt THEN today + SecondsPerDay ELSE today

\* C34: a timed install task is not removed when it has run: when an
\* execution of it ends, with or without success, the task is still in the
\* task set, with next_execution at its HH:MM of a following day; it leaves
\* the task set only through cancel_update, and until then the install runs
\* again when that day has come.
C34_InstallTaskRecurs ==
    [][\A n \in DOMAIN tasks :
          IsInstallName(n) =>
              /\ n \notin DOMAIN tasks' =>
                    /\ tasks' = _cancel_update(tasks)
                    /\ threads' = threads
              /\ Executions(n, threads') < Executions(n, threads) =>
                    /\ n \in DOMAIN tasks'
                    /\ tasks'[n].schedule_time = tasks[n].schedule_time
                    /\ tasks'[n].last_executed = Some(Instant(now))
                    /\ tasks'[n].next_execution =
                           Some(Following(tasks[n].schedule_time, Instant(now)))
                    /\ tasks'[n].next_execution[1] > Instant(now)]_vars

\* the install ran on the first day and set the version; on the second day the
\* same task runs again
C34_Witness ==
    /\ InstallTask \in DOMAIN tasks
    /\ tasks[InstallTask].last_executed # None
    /\ tasks[InstallTask].last_executed[1] < SecondsPerDay
    /\ version = InstallManifest.version
    /\ Instant(now) >= SecondsPerDay
    /\ At("create_backup") # {}

\* ------------------------------------------ task scheduler: loop claims

\* C26: start() while the scheduler runs starts no second polling loop and
\* stop() sets running to false; after any sequence of start() and stop()
\* calls at most one polling loop is alive and launching tasks.
C26_AtMostOneLoop == BagCardinality(scheduler.loops) <= 1

\* a step of the for statement of loop l over its next entry
Iterates(l) ==
    /\ l.pc = "iterate"
    /\ CopiesIn(l, scheduler.loops) > 0
    /\ scheduler'.loops =
           (scheduler.loops (-) One(l)) (+) One(LoopAt(Tail(l.snapshot)))

\* C29: the scheduler has no in-flight guard: next_execution of a task is
\* recomputed only in a step in which one of its executions returns, and the
\* loop launches every due task it goes over, whatever executions of that
\* task are in flight; two executions of one task can be in flight at once.
C29_NoInFlightGuard ==
    [][/\ \A n \in DOMAIN tasks \cap DOMAIN tasks' :
             tasks'[n].next_execution # tasks[n].next_execution
                 => Executions(n, threads') < Executions(n, threads)
       /\ \A l \in BagToSet(scheduler.loops) :
             (Iterates(l) /\ is_due(object(Head(l.snapshot)), Instant(now)))
                 => Launch(Head(l.snapshot))]_vars

\* two executions of the install task are in flight at once
C29_Witness == Executions(InstallTask, threads) >= 2

\* C30: the polling loop never waits for a callback: under fair scheduling a
\* scheduler that keeps running launches again and again every task that
\* stays due, also while an execution that never returns is in flight.
C30_LoopNeverWaits ==
    \A n \in {TestTask, InstallTask} :
        <>[](/\ scheduler.running
             /\ n \in DOMAIN tasks
             /\ is_due(object(n), Instant(now)))
            => []<><<Launch(n)>>_vars

\* an execution never returns, and another task was launched since
C30_Witness ==
    /\ scheduler.running
    /\ \E th \in At("blocked") : \E n \in hist.since_block : n # th.task

\* ------------------------------------------ execution contexts: claims

\* C23: if cancel_update removes a pending scheduled install task before the
\* scheduler has launched that task, the install never runs afterwards - the
\* task is not launched, no backup is created, no file is downloaded or
\* written, the version is not set by it - in every interleaving of the
\* cancelling context with the polling loop.
C23_CancelledInstallNeverRuns ==
    \A n \in hist.cancelled :
        /\ n \notin hist.launched
        /\ InFlight(n) = {}
        /\ ~\E e \in hist.effects : e[1] = n

Threads(pcs) == Sum({th \in BagToSet(threads) : th.pc \in pcs}, threads)

\* C25: the installed version and the update_available flag are written from
\* one execution context only: no two threads are at an assignment to the
\* same one of them at once.
C25_SingleWriter ==
    /\ Threads({"set_version"}) <= 1
    /\ Threads({"set_update_available"}) <= 1

\* an install request is taken from the command file in this step
InstallRequested ==
    /\ voice \in {Some("install now"), Some("install tonight")}
    /\ voice' = None

\* C32: the lifecycle enters Scheduled only from UpdateAvailable: an
\* install_now or install_tonight request received while the manifest version
\* equals the installed version adds no install task and starts no install.
C32_ScheduledOnlyFromUpdateAvailable ==
    [][(InstallRequested /\ version = InstallManifest.version) =>
          /\ tasks' = tasks
          /\ Threads({"create_backup"})' = Threads({"create_backup"})]_vars

\* C36: after every completed check_for_updates, also when two checks
\* interleave their writes, update_available is true if and only if
\* available_version is set: so it is whenever no check is between its two
\* assignments.
C36_FlagMatchesVersion ==
    At("set_available_version") = {} =>
        (cfg.update_available <=> cfg.available_version # None)

\* ------------------------------------------------- install run: progress

\* the progress notifications of the run, in the order they were emitted
ProgressAt(k) == run.events[k].e = "progress"
Percent(k, num, den) ==
    run.events[k].i * den = num * run.events[k].n

\* the values rise from 10 before the backup over 30 before the first download
\* to 30 + 50 * (i + 1) / n after the file of index i, within 0..100
C33_ProgressMilestones ==
    LET n == Len(run.update_files) IN
    /\ \A k \in EventsOf("progress") :
          /\ 0 <= run.events[k].i
          /\ run.events[k].i <= 100 * run.events[k].n
          /\ \A j \in EventsOf("progress") :
                j < k => run.events[j].i * run.events[k].n
                             <= run.events[k].i * run.events[j].n
    /\ run.pc # "idle" => Percent(1, 10, 1) /\ ProgressAt(1)
    /\ \A k \in EventsOf("backup") :
          /\ \A j \in EventsOf("progress") : j < k => Percent(j, 10, 1)
          /\ run.events[k].ok => ProgressAt(k + 1) /\ Percent(k + 1, 30, 1)
    /\ \A k \in EventsOf("download") :
          \E j \in EventsOf("progress") : j < k /\ Percent(j, 30, 1)
    /\ \A i \in 1..n :
          run.i >= i =>
             \E k \in EventsOf("progress") : Percent(k, 30 * n + 50 * i, n)
    /\ \A k \in EventsOf("progress") :
          \/ Percent(k, 10, 1)
          \/ Percent(k, 30, 1)
          \/ Percent(k, 100, 1)
          \/ \E i \in 1..run.i : Percent(k, 30 * n + 50 * i, n)

\* 100 is emitted only by a run that succeeds
HundredOnlyOnSuccess ==
    \A k \in EventsOf("progress") :
        Percent(k, 100, 1) =>
            /\ AllInstalled
            /\ run.pc = "done" => \A r \in EventsOf("result") : run.events[r].ok

\* C33: within one install run of n files the progress values are
\* non-decreasing and lie in 0..100: 10 at the backup milestone, 30 before the
\* first download, 30 + 50 * (i + 1) / n after the file of index i, and 100
\* only after every file succeeded; a run that fails never emits 100.
C33_ProgressNeverHundredOnFailure ==
    /\ C33_ProgressMilestones
    /\ HundredOnlyOnSuccess

\* ------------------------------------------------ install run: destinations

\* the destination of the entry of index i - 1 of the run
DestinationOf(i) == run.update_files[i].destination

\* C35: each update file is downloaded straight to its destination and
\* verified only afterwards: when the verification of a file fails the
\* destination holds the rejected bytes, and the run ends and leaves them
\* there; only a rollback puts the previous content back.
C35_RejectedBytesLeftInPlace ==
    /\ run.pc = "verify" => installed[DestinationOf(run.i + 1)] = FileOf(Served)
    /\ \A k \in EventsOf("verify") :
          ~run.events[k].ok =>
              /\ run.pc = "done"
              /\ ~rb.executed =>
                    installed[DestinationOf(run.events[k].i)] = FileOf(Served)

\* C35 witness: the run has ended on a failed verification and the file it
\* rejected has replaced the one the run found
C35_Witness ==
    /\ run.pc = "done"
    /\ ~rb.executed
    /\ \E k \in EventsOf("verify") :
          /\ ~run.events[k].ok
          /\ installed[DestinationOf(run.events[k].i)] = FileOf(Served)
          /\ installed[DestinationOf(run.events[k].i)]
                 # run.at_start[DestinationOf(run.events[k].i)]

====
